---------------------------- MODULE Spec2Model ----------------------------
(***************************************************************************)
(* Decision & Evidence Ledger of eve-control-room.                         *)
(*                                                                         *)
(*   eve/core/trinity_api.py      Database, ECLParser, ECLValidator,       *)
(*                                DecisionEngine, approval registry        *)
(*   eve/core/x_vault/x_vault.py  MerkleTree, XVault                       *)
(*                                                                         *)
(* Every HTTP handler of trinity_api.py is a synchronous function run to   *)
(* completion on the event loop, so one handler is one action.  Hashes     *)
(* (sha256 of a canonical JSON dump) are modelled as the hashed value      *)
(* itself under a tag: an injective, collision-free hash.  Timestamps of   *)
(* the Database records (created_at, sealed_at) are left out: no modelled  *)
(* operation reads them except to sort the output of a query.              *)
(***************************************************************************)
EXTENDS Integers, Sequences, FiniteSets, TLC

(***************************************************************************)
(* Bounds of the model.                                                    *)
(***************************************************************************)
\* generate_next_edi is called at most MaxAlloc times
MaxAlloc == 3
\* seal is not called once the evidence chain holds MaxEvidence records
MaxEvidence == 3
\* create_snapshot is not called once MaxSnapshots snapshots exist
MaxSnapshots == 1

\* the readings of the clock, in ticks
Times == {0, 1}

\* the calendar years datetime.now().year may return
Years == {2026, 2027}

(***************************************************************************)
(* Python values.  A params entry is Missing (no such key), Null (None)    *)
(* or Val(x).  Strings whose characters the code inspects are sequences    *)
(* of one-character strings; the others are TLA+ strings.                  *)
(***************************************************************************)
Missing == <<"missing">>
Null == <<"null">>
Val(x) == <<"val", x>>
IsVal(o) == o[1] = "val"
\* dict.get(key): None for a missing key
Get(o) == IF o = Missing THEN Null ELSE o
\* dict.get(key, default)
GetOr(o, d) == IF o = Missing THEN Val(d) ELSE o
\* Python truthiness of None or a list (or a string kept as a character sequence)
Truthy(o) == IsVal(o) /\ o[2] # <<>>
\* Python truthiness of None or a string kept as a TLA+ string
TruthyStr(o) == IsVal(o) /\ o[2] # ""

\* an eve_decision_id "EVE-<year>-<seq>"; NoId stands for None
NoId == [year |-> 0, seq |-> 0]
Edi(year, seq) == [year |-> year, seq |-> seq]

\* f"EVE-{year}-{next_seq:06d}" against ^EVE-\d{4}-\d{6}$: the year has four
\* digits and the zero-padded sequence number six
MinYear4 == 1000
MaxYear4 == 9999
MaxSeq6 == 999999
MatchesEdiRegex(id) ==
    /\ id.year >= MinYear4 /\ id.year <= MaxYear4
    /\ id.seq >= 0 /\ id.seq <= MaxSeq6

(***************************************************************************)
(* normalize_project_id                                                    *)
(***************************************************************************)
Lower == {"a", "b", "l", "e", "g", "c", "y"}
Digit == {"1", "2"}
AlNum == Lower \cup Digit
MinProjectLen == 2
MaxProjectLen == 64

\* PROJECT_ID_REGEX.match: ^[a-z0-9][a-z0-9-]{0,62}[a-z0-9]$ ; Python's $ also
\* matches before one trailing newline
MatchesCore(s) ==
    /\ Len(s) >= MinProjectLen /\ Len(s) <= MaxProjectLen
    /\ s[1] \in AlNum /\ s[Len(s)] \in AlNum
    /\ \A i \in 2..(Len(s) - 1) : s[i] \in AlNum \cup {"-"}

PROJECT_ID_REGEX(s) ==
    \/ MatchesCore(s)
    \/ Len(s) >= 1 /\ s[Len(s)] = "\n" /\ MatchesCore(SubSeq(s, 1, Len(s) - 1))

LegacyProject == <<"l", "e", "g", "a", "c", "y">>

\* normalize_project_id that reserves "legacy" for the v1 fallback
normalize_project_id_reserving_legacy(pid) ==
    IF ~Truthy(pid) \/ pid[2] = LegacyProject
    THEN [ok |-> TRUE, project_id |-> LegacyProject, hash_version |-> "v1"]
    ELSE IF ~PROJECT_ID_REGEX(pid[2])
    THEN [ok |-> FALSE, project_id |-> pid[2], hash_version |-> "none"]
    ELSE [ok |-> TRUE, project_id |-> pid[2], hash_version |-> "v2"]

\* normalize_project_id that tags every partition with the legacy scheme
normalize_project_id_tagging_v1(pid) ==
    IF ~Truthy(pid)
    THEN [ok |-> TRUE, project_id |-> LegacyProject, hash_version |-> "v1"]
    ELSE IF ~PROJECT_ID_REGEX(pid[2])
    THEN [ok |-> FALSE, project_id |-> pid[2], hash_version |-> "none"]
    ELSE [ok |-> TRUE, project_id |-> pid[2], hash_version |-> "v1"]

\* [ok, project_id, hash_version]; ok = FALSE is the ValueError
normalize_project_id(pid) ==
    IF ~Truthy(pid)
    THEN [ok |-> TRUE, project_id |-> LegacyProject, hash_version |-> "v1"]
    ELSE IF ~PROJECT_ID_REGEX(pid[2])
    THEN [ok |-> FALSE, project_id |-> pid[2], hash_version |-> "none"]
    ELSE [ok |-> TRUE, project_id |-> pid[2], hash_version |-> "v2"]

(***************************************************************************)
(* VALIDATION_RULES                                                        *)
(***************************************************************************)
Rule(arts, roles, risk) ==
    [required_artifacts |-> arts, required_roles |-> roles, requires_risk_links |-> risk]

VALIDATION_RULES ==
    [ CLASSIFY |->
        Rule(<<<<"CDOC-SCOPE", 1>>, <<"CDOC-CLASS", 1>>>>, <<"Compliance Owner">>, "False"),
      APPROVE_GOVERNANCE |->
        Rule(<<<<"CDOC-ROLES", 1>>, <<"CDOC-MANDATE", 1>>>>,
             <<"Legal Counsel", "Board Member">>, "False"),
      ACCEPT_RISK |->
        Rule(<<<<"CDOC-RISK", 1>>, <<"CDOC-MITIGATION", 1>>>>,
             <<"Risk Owner", "Compliance Owner">>, "True"),
      APPROVE_DATA |->
        Rule(<<<<"CDOC-DATA", 1>>, <<"CDOC-QUALITY", 1>>>>,
             <<"Data Protection Officer">>, "False"),
      APPROVE_CHANGE |->
        Rule(<<<<"CDOC-CHANGE", 1>>, <<"CDOC-IMPACT", 1>>>>,
             <<"System Owner", "Compliance Owner">>, "conditional"),
      INCIDENT_ACTION |->
        Rule(<<<<"CDOC-INCIDENT", 1>>, <<"CDOC-ACTION", 1>>>>, <<"Incident Manager">>, "True"),
      DECOMMISSION |->
        Rule(<<<<"CDOC-DECOM", 1>>, <<"CDOC-ARCHIVE", 1>>>>,
             <<"System Owner", "Legal Counsel">>, "False") ]

VALID_DECISION_COMMANDS == DOMAIN VALIDATION_RULES
VALID_READ_COMMANDS == {"QUERY", "REPLAY", "VERIFY"}

COMMAND_TO_DECISION_TYPE ==
    [ CLASSIFY |-> "CLASSIFICATION", APPROVE_GOVERNANCE |-> "GOVERNANCE_APPROVAL",
      ACCEPT_RISK |-> "RISK_ACCEPTANCE", APPROVE_DATA |-> "DATA_APPROVAL",
      APPROVE_CHANGE |-> "CHANGE_APPROVAL", INCIDENT_ACTION |-> "INCIDENT_ACTION",
      DECOMMISSION |-> "DECOMMISSION" ]

\* a.upper().startswith(prefix.upper()) on the artifact ids of the model
UpperStartsWith(a, prefix) ==
    <<a, prefix>> \in { <<"CDOC-SCOPE-1", "CDOC-SCOPE">>, <<"cdoc-class-1", "CDOC-CLASS">>,
                        <<"CDOC-RISK-1", "CDOC-RISK">>, <<"CDOC-MITIGATION-1", "CDOC-MITIGATION">>,
                        <<"CDOC-CHANGE-1", "CDOC-CHANGE">>, <<"cdoc-impact-1", "CDOC-IMPACT">> }

(***************************************************************************)
(* ECLParser.  An ECL input is kept by its fields: form is "text" or       *)
(* "json", every other field is Missing (no such line or key) or Val(x).   *)
(***************************************************************************)
ParamKeys ==
    {"system_id", "use_case", "artifacts", "risk_links", "signoff", "project_id",
     "eve_decision_id", "supersedes", "filters"}

\* _parse_text sets a key only for a line it finds; _parse_json sets every
\* key, to None when the object lacks it
ParseParams(input) ==
    [k \in ParamKeys |->
        IF input.form = "json" THEN Get(input[k]) ELSE input[k]]

\* [success, command, errors]
ECLParser_parse(input) ==
    LET verb == input.verb
        is_decision == verb \in VALID_DECISION_COMMANDS
        is_read == verb \in VALID_READ_COMMANDS
        params == ParseParams(input)
        command == [type |-> IF is_decision THEN "decision" ELSE "read",
                    verb |-> verb, params |-> params]
    IN  IF ~is_decision /\ ~is_read
        THEN [success |-> FALSE, command |-> command, errors |-> <<<<"unknown", "command">>>>]
        ELSE IF is_decision /\ ~TruthyStr(Get(params.system_id))
        THEN [success |-> FALSE, command |-> command, errors |-> <<<<"missing", "system_id">>>>]
        ELSE [success |-> TRUE, command |-> command, errors |-> <<>>]

(***************************************************************************)
(* ECLValidator.validate: [raised, valid, errors, warnings].  raised is    *)
(* the TypeError of iterating None when artifacts or signoff is null.      *)
(***************************************************************************)
CountMatching(artifacts, prefix) ==
    Cardinality({i \in 1..Len(artifacts) : UpperStartsWith(artifacts[i], prefix)})

ArtifactErrors(rules, artifacts) ==
    LET unmet == SelectSeq(rules.required_artifacts,
                           LAMBDA r : CountMatching(artifacts, r[1]) < r[2])
    IN  [i \in 1..Len(unmet) |-> <<"requires artifact", unmet[i][1]>>]

RoleErrors(rules, signoffs) ==
    LET provided_roles == {signoffs[i].role : i \in 1..Len(signoffs)}
        unmet == SelectSeq(rules.required_roles, LAMBDA r : r \notin provided_roles)
    IN  [i \in 1..Len(unmet) |-> <<"requires signoff", unmet[i]>>]

ECLValidator_validate(command) ==
    IF command.type = "read"
    THEN [raised |-> FALSE, valid |-> TRUE, errors |-> <<>>, warnings |-> <<>>]
    ELSE
    LET params == command.params
        rules == VALIDATION_RULES[command.verb]
        artifacts == GetOr(params.artifacts, <<>>)
        signoffs == GetOr(params.signoff, <<>>)
        risk_links == GetOr(params.risk_links, <<>>)
    IN  IF artifacts = Null \/ signoffs = Null
        THEN [raised |-> TRUE, valid |-> FALSE, errors |-> <<>>, warnings |-> <<>>]
        ELSE
        LET errors ==
                (IF ~TruthyStr(Get(params.system_id))
                 THEN <<<<"requires", "system_id">>>> ELSE <<>>)
                \o ArtifactErrors(rules, artifacts[2])
                \o RoleErrors(rules, signoffs[2])
                \o (IF rules.requires_risk_links = "True" /\ ~Truthy(risk_links)
                    THEN <<<<"requires", "risk_link">>>> ELSE <<>>)
            warnings ==
                (IF rules.requires_risk_links = "conditional" /\ ~Truthy(risk_links)
                 THEN <<"may require risk_links">> ELSE <<>>)
                \o (IF ~TruthyStr(Get(params.use_case))
                    THEN <<"should include use_case">> ELSE <<>>)
        IN  [raised |-> FALSE, valid |-> errors = <<>>, errors |-> errors,
             warnings |-> warnings]

(***************************************************************************)
(* Database: the operations on the state dictionary.  Each returns the     *)
(* new dictionary; each one that changes it ends in _save().               *)
(***************************************************************************)
EmptyState ==
    [edi_sequence |-> [y \in Years |-> 0], decisions |-> <<>>, vault |-> <<>>,
     artifacts |-> <<>>, approvals |-> <<>>]

\* next_seq = current + 1
NextSeq(current) == current + 1

\* generate_next_edi without the write of the counter
generate_next_edi_unsaved(db, now_year) ==
    [db |-> db, id |-> Edi(now_year, NextSeq(db.edi_sequence[now_year]))]

\* [db, id]
generate_next_edi(db, now_year) ==
    LET next_seq == NextSeq(db.edi_sequence[now_year])
    IN  [db |-> [db EXCEPT !.edi_sequence[now_year] = next_seq],
         id |-> Edi(now_year, next_seq)]

\* insert_decision that replaces the list instead of appending to it
insert_decision_replacing(db, decision) ==
    [db EXCEPT !.decisions = <<decision>>]

insert_decision(db, decision) ==
    [db EXCEPT !.decisions = Append(@, decision)]

\* the index of the first element of seq that satisfies Test, 0 if none
FirstIndex(seq, Test(_)) ==
    IF \E i \in 1..Len(seq) : Test(seq[i])
    THEN CHOOSE i \in 1..Len(seq) : Test(seq[i]) /\ \A j \in 1..(i - 1) : ~Test(seq[j])
    ELSE 0

DecisionIndex(db, id) ==
    FirstIndex(db.decisions, LAMBDA d : d.eve_decision_id = id)

\* get_decision(id) is not None
HasDecision(db, id) == DecisionIndex(db, id) # 0
get_decision(db, id) == db.decisions[DecisionIndex(db, id)]

VaultIndex(db, id) ==
    FirstIndex(db.vault, LAMBDA v : v.eve_decision_id = id)
HasVaultEntry(db, id) == VaultIndex(db, id) # 0

\* Database.supersede without the write of superseded_by
Database_supersede_status_only(db, old_edi, new_edi) ==
    LET i == DecisionIndex(db, old_edi)
    IN  IF i = 0 THEN db ELSE [db EXCEPT !.decisions[i].status = "SUPERSEDED"]

\* Database.supersede: the first decision with the id, if any
\* supersede that also points the old decision at the new one as its
\* predecessor
Database_supersede_relinking(db, old_edi, new_edi) ==
    LET i == DecisionIndex(db, old_edi)
    IN  IF i = 0 THEN db
        ELSE [db EXCEPT !.decisions[i].status = "SUPERSEDED",
                        !.decisions[i].superseded_by = new_edi,
                        !.decisions[i].supersedes = new_edi]

\* supersede that writes the pointer and leaves the old decision EXECUTED
Database_supersede_pointer_only(db, old_edi, new_edi) ==
    LET i == DecisionIndex(db, old_edi)
    IN  IF i = 0 THEN db
        ELSE [db EXCEPT !.decisions[i].superseded_by = new_edi]

Database_supersede(db, old_edi, new_edi) ==
    LET i == DecisionIndex(db, old_edi)
    IN  IF i = 0 THEN db
        ELSE [db EXCEPT !.decisions[i].status = "SUPERSEDED",
                        !.decisions[i].superseded_by = new_edi]

\* [raised, db]; raised is the ValueError for an id that is not EVE-dddd-dddddd
seal_to_vault(db, eve_decision_id, evidence_type, payload) ==
    IF eve_decision_id = NoId \/ ~MatchesEdiRegex(eve_decision_id)
    THEN [raised |-> TRUE, db |-> db]
    ELSE [raised |-> FALSE,
          db |-> [db EXCEPT !.vault = Append(@,
                    [eve_decision_id |-> eve_decision_id,
                     evidence_type |-> evidence_type,
                     payload_hash |-> <<"sha256", payload>>])]]

ArtifactIndex(db, artifact_id) ==
    FirstIndex(db.artifacts, LAMBDA a : a.artifact_id = artifact_id)

create_artifact(db, artifact_id) ==
    IF ArtifactIndex(db, artifact_id) # 0 THEN db
    ELSE [db EXCEPT !.artifacts = Append(@,
            [artifact_id |-> artifact_id, status |-> "Draft", eve_decision_id |-> NoId])]

propose_artifact(db, artifact_id) ==
    LET i == FirstIndex(db.artifacts,
                        LAMBDA a : a.artifact_id = artifact_id /\ a.status = "Draft")
    IN  IF i = 0 THEN db ELSE [db EXCEPT !.artifacts[i].status = "Proposed"]

link_artifact_to_decision(db, artifact_id, eve_decision_id) ==
    LET i == ArtifactIndex(db, artifact_id)
    IN  IF i = 0 THEN db
        ELSE [db EXCEPT !.artifacts[i].status = "Executed",
                        !.artifacts[i].eve_decision_id = eve_decision_id]

\* for artifact_id in params.get("artifacts", []): link_artifact_to_decision
RECURSIVE LinkArtifacts(_, _, _)
LinkArtifacts(db, artifact_ids, eve_decision_id) ==
    IF artifact_ids = <<>> THEN db
    ELSE LinkArtifacts(link_artifact_to_decision(db, Head(artifact_ids), eve_decision_id),
                       Tail(artifact_ids), eve_decision_id)

\* list_decisions: the decisions that pass every filter that is set, in the
\* order of insertion (the sort on created_at is not modelled)
list_decisions(db, filters) ==
    SelectSeq(db.decisions, LAMBDA d :
        /\ filters.decision_type # "" => d.decision_type = filters.decision_type
        /\ filters.status # "" => d.status = filters.status
        /\ filters.system_id # "" => d.scope.system_id = Val(filters.system_id)
        /\ filters.project_id # <<>> => d.project_id = filters.project_id)

NoFilters == [decision_type |-> "", status |-> "", system_id |-> "", project_id |-> <<>>]

\* _save_approval: replace the approval of the same (type, id)
save_approval(db, approval) ==
    [db EXCEPT !.approvals =
        Append(SelectSeq(@, LAMBDA a : ~(a.type = approval.type /\ a.id = approval.id)),
               approval)]

(***************************************************************************)
(* DecisionEngine.  A handler returns                                      *)
(*   db     the state dictionary it leaves,                                *)
(*   saved  whether it called _save(),                                     *)
(*   edi    the id generate_next_edi returned to it (NoId: not called),    *)
(*   resp   its response.                                                  *)
(* A response has outcome "ok" (success: True), "error" (success: False)   *)
(* or "raised" (an exception left the handler).                            *)
(***************************************************************************)
NoChecks ==
    [decision_exists |-> FALSE, vault_exists |-> FALSE, status |-> "", overall_valid |-> FALSE]

Resp(outcome, error, id, superseded) ==
    [outcome |-> outcome, error |-> error, eve_decision_id |-> id,
     superseded |-> superseded, checks |-> NoChecks, count |-> 0, errors |-> <<>>]

\* {"success": False, "errors": errors}
Failed(error, errors) == [Resp("error", error, NoId, NoId) EXCEPT !.errors = errors]

Done(db, saved, edi, resp) == [db |-> db, saved |-> saved, edi |-> edi, resp |-> resp]

\* the hashed dictionary with the partition id left at None
context_data_without_project(project_id, params) ==
    [project_id |-> <<>>, system_id |-> Get(params.system_id),
     use_case |-> Get(params.use_case), artifacts |-> Get(params.artifacts),
     risk_links |-> Get(params.risk_links), signoff |-> Get(params.signoff)]

\* the dictionary _create_decision_object dumps and hashes
context_data(project_id, params) ==
    [project_id |-> project_id, system_id |-> Get(params.system_id),
     use_case |-> Get(params.use_case), artifacts |-> Get(params.artifacts),
     risk_links |-> Get(params.risk_links), signoff |-> Get(params.signoff)]

\* a decision object whose context hash covers the hash-scheme tag as well
create_decision_object_hashing_scheme(eve_decision_id, command) ==
    LET params == command.params
        norm == normalize_project_id(Get(params.project_id))
        signoff == GetOr(params.signoff, <<>>)[2]
        supersedes == Get(params.supersedes)
    IN  [raised |-> ~norm.ok,
         obj |->
           [eve_decision_id |-> eve_decision_id,
            project_id |-> norm.project_id,
            hash_version |-> norm.hash_version,
            decision_type |-> COMMAND_TO_DECISION_TYPE[command.verb],
            status |-> "EXECUTED",
            executed_by |-> [i \in 1..Len(signoff) |->
                [role |-> signoff[i].role, actor_id |-> signoff[i].actor_id,
                 approval_method |-> "explicit_signoff"]],
            scope |-> [system_id |-> GetOr(params.system_id, ""),
                       use_case |-> GetOr(params.use_case, "")],
            source_artifacts |-> GetOr(params.artifacts, <<>>)[2],
            risk_links |-> Get(params.risk_links),
            rule_set_version |-> "eve-ruleset-v1.0",
            context_hash |-> <<"sha256", context_data(norm.project_id, params),
                               norm.hash_version>>,
            supersedes |-> IF IsVal(supersedes) THEN supersedes[2] ELSE NoId,
            superseded_by |-> NoId]]

\* [raised, obj]; raised is normalize_project_id's ValueError
create_decision_object(eve_decision_id, command) ==
    LET params == command.params
        norm == normalize_project_id(Get(params.project_id))
        signoff == GetOr(params.signoff, <<>>)[2]
        supersedes == Get(params.supersedes)
    IN  [raised |-> ~norm.ok,
         obj |->
           [eve_decision_id |-> eve_decision_id,
            project_id |-> norm.project_id,
            hash_version |-> norm.hash_version,
            decision_type |-> COMMAND_TO_DECISION_TYPE[command.verb],
            status |-> "EXECUTED",
            executed_by |-> [i \in 1..Len(signoff) |->
                [role |-> signoff[i].role, actor_id |-> signoff[i].actor_id,
                 approval_method |-> "explicit_signoff"]],
            scope |-> [system_id |-> GetOr(params.system_id, ""),
                       use_case |-> GetOr(params.use_case, "")],
            source_artifacts |-> GetOr(params.artifacts, <<>>)[2],
            risk_links |-> Get(params.risk_links),
            rule_set_version |-> "eve-ruleset-v1.0",
            context_hash |-> <<"sha256", context_data(norm.project_id, params)>>,
            supersedes |-> IF IsVal(supersedes) THEN supersedes[2] ELSE NoId,
            superseded_by |-> NoId]]

\* the status check left out
SupersedeRefused_never(original) == FALSE

\* the status check that lets a SUPERSEDED decision through
SupersedeRefused_only_unknown(original) == original.status \notin {"EXECUTED", "SUPERSEDED"}

\* original["status"] != "EXECUTED" refuses the supersede
SupersedeRefused(original) == original.status # "EXECUTED"

execute_supersede(db, command, now_year) ==
    LET supersedes == command.params.supersedes[2]
    IN  IF ~HasDecision(db, supersedes)
        THEN Done(db, FALSE, NoId, Resp("error", "Decision not found", NoId, NoId))
        ELSE IF SupersedeRefused(get_decision(db, supersedes))
        THEN Done(db, FALSE, NoId, Resp("error", "Cannot supersede", NoId, NoId))
        ELSE
        LET g == generate_next_edi(db, now_year)
            o == create_decision_object(g.id, command)
        IN  IF o.raised
            THEN Done(g.db, TRUE, g.id, Resp("raised", "ValueError", NoId, NoId))
            ELSE
            LET d1 == insert_decision(g.db, o.obj)
                d2 == Database_supersede(d1, supersedes, g.id)
                v == seal_to_vault(d2, g.id, "DECISION", o.obj)
            IN  IF v.raised
                THEN Done(d2, TRUE, g.id, Resp("raised", "ValueError", NoId, NoId))
                ELSE Done(v.db, TRUE, g.id, Resp("ok", "", g.id, supersedes))

execute_decision(db, command, now_year) ==
    IF IsVal(Get(command.params.supersedes))
    THEN execute_supersede(db, command, now_year)
    ELSE
    LET g == generate_next_edi(db, now_year)
        o == create_decision_object(g.id, command)
    IN  IF o.raised
        THEN Done(g.db, TRUE, g.id, Resp("raised", "ValueError", NoId, NoId))
        ELSE
        LET d1 == insert_decision(g.db, o.obj)
            v == seal_to_vault(d1, g.id, "DECISION", o.obj)
        IN  IF v.raised
            THEN Done(d1, TRUE, g.id, Resp("raised", "ValueError", NoId, NoId))
            ELSE Done(LinkArtifacts(v.db, GetOr(command.params.artifacts, <<>>)[2], g.id),
                      TRUE, g.id, Resp("ok", "", g.id, NoId))

\* _verify
verify(db, id) ==
    [Resp("ok", "", id, NoId) EXCEPT !.checks =
        [decision_exists |-> HasDecision(db, id),
         vault_exists |-> HasVaultEntry(db, id),
         status |-> IF HasDecision(db, id) THEN get_decision(db, id).status ELSE "NOT_FOUND",
         overall_valid |-> HasDecision(db, id) /\ HasVaultEntry(db, id)]]

\* _replay: the frozen context is read from the decision; nothing is written
replay(db, id) ==
    IF ~HasDecision(db, id)
    THEN Resp("error", "Decision not found", NoId, NoId)
    ELSE [Resp("ok", "", id, NoId) EXCEPT !.checks =
            [decision_exists |-> TRUE, vault_exists |-> HasVaultEntry(db, id),
             status |-> get_decision(db, id).status, overall_valid |-> FALSE]]

\* _query
query(db, filters) ==
    [Resp("ok", "", NoId, NoId) EXCEPT !.count = Len(list_decisions(db, filters))]

IdParam(o) == IF IsVal(o) THEN o[2] ELSE NoId

execute_read(db, command) ==
    LET params == command.params
    IN  CASE command.verb = "REPLAY" -> replay(db, IdParam(Get(params.eve_decision_id)))
          [] command.verb = "VERIFY" -> verify(db, IdParam(Get(params.eve_decision_id)))
          [] OTHER -> query(db, IF IsVal(params.filters) THEN params.filters[2] ELSE NoFilters)

\* the command with the request's project_id put into its params
WithProject(command, project_id) ==
    IF project_id = Null THEN command
    ELSE [command EXCEPT !.params.project_id = project_id]

\* execute that draws the decision id before it validates the command
execute_allocating_first(db, input, project_id, now_year) ==
    LET parse_result == ECLParser_parse(input)
        command == WithProject(parse_result.command, project_id)
        validation == ECLValidator_validate(command)
        g == generate_next_edi(db, now_year)
    IN  IF ~parse_result.success
        THEN Done(db, FALSE, NoId, Failed("parse", parse_result.errors))
        ELSE IF command.type = "read"
        THEN Done(db, FALSE, NoId, execute_read(db, command))
        ELSE IF validation.raised
        THEN Done(db, FALSE, NoId, Resp("raised", "TypeError", NoId, NoId))
        ELSE IF ~validation.valid
        THEN Done(g.db, TRUE, g.id, Failed("validation", validation.errors))
        ELSE execute_decision(db, command, now_year)

\* execute that routes an instruction with a supersedes field to the
\* supersede handler before it validates
execute_routing_supersede_first(db, input, project_id, now_year) ==
    LET parse_result == ECLParser_parse(input)
        command == WithProject(parse_result.command, project_id)
        validation == ECLValidator_validate(command)
    IN  IF ~parse_result.success
        THEN Done(db, FALSE, NoId, Failed("parse", parse_result.errors))
        ELSE IF command.type = "read"
        THEN Done(db, FALSE, NoId, execute_read(db, command))
        ELSE IF IsVal(Get(command.params.supersedes))
        THEN execute_supersede(db, command, now_year)
        ELSE IF validation.raised
        THEN Done(db, FALSE, NoId, Resp("raised", "TypeError", NoId, NoId))
        ELSE IF ~validation.valid
        THEN Done(db, FALSE, NoId, Failed("validation", validation.errors))
        ELSE execute_decision(db, command, now_year)

\* DecisionEngine.execute(ecl_input, project_id)
execute(db, input, project_id, now_year) ==
    LET parse_result == ECLParser_parse(input)
        command == WithProject(parse_result.command, project_id)
        validation == ECLValidator_validate(command)
    IN  IF ~parse_result.success
        THEN Done(db, FALSE, NoId, Failed("parse", parse_result.errors))
        ELSE IF command.type = "read"
        THEN Done(db, FALSE, NoId, execute_read(db, command))
        ELSE IF validation.raised
        THEN Done(db, FALSE, NoId, Resp("raised", "TypeError", NoId, NoId))
        ELSE IF ~validation.valid
        THEN Done(db, FALSE, NoId, Failed("validation", validation.errors))
        ELSE execute_decision(db, command, now_year)

\* validate that draws an id for an instruction it finds valid
validate_allocating(db, input) ==
    LET parse_result == ECLParser_parse(input)
        validation == ECLValidator_validate(parse_result.command)
    IN  IF ~parse_result.success
        THEN Done(db, FALSE, NoId, Failed("parse", parse_result.errors))
        ELSE IF validation.raised
        THEN Done(db, FALSE, NoId, Resp("raised", "TypeError", NoId, NoId))
        ELSE IF validation.valid
        THEN Done(generate_next_edi(db, CHOOSE y \in Years : \A z \in Years : y <= z).db,
                  TRUE, NoId, Resp("ok", "", NoId, NoId))
        ELSE Done(db, FALSE, NoId, Failed("validation", validation.errors))

\* DecisionEngine.validate(ecl_input)
validate(db, input) ==
    LET parse_result == ECLParser_parse(input)
        validation == ECLValidator_validate(parse_result.command)
    IN  IF ~parse_result.success
        THEN Done(db, FALSE, NoId, Failed("parse", parse_result.errors))
        ELSE IF validation.raised
        THEN Done(db, FALSE, NoId, Resp("raised", "TypeError", NoId, NoId))
        ELSE IF validation.valid
        THEN Done(db, FALSE, NoId, Resp("ok", "", NoId, NoId))
        ELSE Done(db, FALSE, NoId, Failed("validation", validation.errors))

(***************************************************************************)
(* The inputs of the model.                                                *)
(***************************************************************************)
Ecl(form, verb, system_id, artifacts, risk_links, signoff, project_id, supersedes) ==
    [form |-> form, verb |-> verb, system_id |-> system_id, use_case |-> Missing,
     artifacts |-> artifacts, risk_links |-> risk_links, signoff |-> signoff,
     project_id |-> project_id, eve_decision_id |-> Missing, supersedes |-> supersedes,
     filters |-> Missing]

EclRead(verb, eve_decision_id, filters) ==
    [form |-> "text", verb |-> verb, system_id |-> Missing, use_case |-> Missing,
     artifacts |-> Missing, risk_links |-> Missing, signoff |-> Missing,
     project_id |-> Missing, eve_decision_id |-> eve_decision_id, supersedes |-> Missing,
     filters |-> filters]

ScopeDoc == "CDOC-SCOPE-1"
ClassDoc == "cdoc-class-1"
ClassifyArtifacts == <<ScopeDoc, ClassDoc>>
ClassifySignoff == <<[role |-> "Compliance Owner", actor_id |-> "joakim"]>>
RiskArtifacts == <<"CDOC-RISK-1", "CDOC-MITIGATION-1">>
RiskSignoff ==
    <<[role |-> "Risk Owner", actor_id |-> "anna"],
      [role |-> "Compliance Owner", actor_id |-> "joakim"]>>

AlphaProject == <<"a", "1">>
\* an upper-case letter: no match of PROJECT_ID_REGEX
BadProject == <<"A", "1">>

\* a complete CLASSIFY instruction in text form
Classify(project_id, supersedes) ==
    Ecl("text", "CLASSIFY", Val("acme-sys"), Val(ClassifyArtifacts), Missing,
        Val(ClassifySignoff), project_id, supersedes)

\* the ids a caller may name: the first ids of each year, and one that is not
\* of the form EVE-dddd-dddddd
FirstYear == 2026
MalformedId == Edi(26, 1)
IdInputs == {Edi(FirstYear, 1), Edi(FirstYear, 2), Edi(FirstYear + 1, 1), MalformedId}

WriteInputs ==
    \* under no partition id, a valid one and one that matches no grammar
    { Classify(p, Missing) : p \in {Missing, Val(AlphaProject), Val(BadProject)} }
    \* the same instruction superseding a decision
    \cup { Classify(Missing, Val(id)) : id \in IdInputs }
    \cup { Classify(Val(BadProject), Val(Edi(FirstYear, 1))) }
    \* a supersede that lacks the required signoff
    \cup { Ecl("text", "CLASSIFY", Val("acme-sys"), Val(ClassifyArtifacts), Missing,
               Missing, Missing, Val(Edi(FirstYear, 1))) }
    \* the JSON form, complete and with artifacts left out
    \cup { Ecl("json", "CLASSIFY", Val("acme-sys"), a, Missing, Val(ClassifySignoff),
               Missing, Missing) : a \in {Val(ClassifyArtifacts), Missing} }
    \* ACCEPT_RISK with no risk link
    \cup { Ecl("text", "ACCEPT_RISK", Val("acme-sys"), Val(RiskArtifacts), Missing,
               Val(RiskSignoff), Missing, Missing) }
    \* an unknown verb, and a decision verb with no SYSTEM
    \cup { Ecl("text", "FOO", Val("acme-sys"), Missing, Missing, Missing, Missing, Missing),
           Ecl("text", "CLASSIFY", Missing, Val(ClassifyArtifacts), Missing,
               Val(ClassifySignoff), Missing, Missing) }

ReadIds == {Edi(FirstYear, 1), MalformedId}

\* EVE REPLAY / EVE VERIFY of the first id, and EVE QUERY
ReadInputs ==
    { EclRead(v, Val(Edi(FirstYear, 1)), Missing) : v \in {"REPLAY", "VERIFY"} }
    \cup { EclRead("QUERY", Missing, Missing) }

Inputs == WriteInputs \cup ReadInputs

\* the instructions that are also sent with an ECLRequest.project_id, and the
\* values of it: empty, and one that matches no grammar
OverrideInputs == { Classify(Val(AlphaProject), Missing) }
ApiProjectIds == {Val(<<>>), Val(BadProject)}

\* the instructions sent to /validate_ecl
ValidateInputs ==
    { Classify(Missing, Missing),
      Ecl("text", "ACCEPT_RISK", Val("acme-sys"), Val(RiskArtifacts), Missing,
          Val(RiskSignoff), Missing, Missing),
      Ecl("json", "CLASSIFY", Val("acme-sys"), Missing, Missing, Val(ClassifySignoff),
          Missing, Missing),
      Ecl("text", "FOO", Val("acme-sys"), Missing, Missing, Missing, Missing, Missing) }

\* artifacts that can be registered through /artifact/create
ArtifactIds == {ScopeDoc}

ApprovalTypes == {"artifact", "knowledge"}
ApprovalIds == {"item-1"}
ApprovalNotes == {Null, Val("note")}

(***************************************************************************)
(* x_vault.py.  A hex digest is a sequence of strings: the tag "sha256"    *)
(* followed by the hashed text, itself a sequence of strings, so that two  *)
(* digests are equal exactly when the hashed texts are.                    *)
(***************************************************************************)
sha256(text) == <<"sha256">> \o text

\* the keys of the sealed dictionaries, in sort_keys order
JsonKeys ==
    <<"action", "approver_id", "artifact_hash", "artifact_id", "body", "decision",
      "event", "evidence_count", "merkle_root", "new_artifact_id", "old_artifact_id",
      "package_id", "period_end", "period_start", "role", "snapshot_id">>

RECURSIVE DumpKeys(_, _)
DumpKeys(content, k) ==
    IF k > Len(JsonKeys) THEN <<>>
    ELSE (IF JsonKeys[k] \in DOMAIN content
          THEN <<JsonKeys[k], content[JsonKeys[k]]>> ELSE <<>>)
         \o DumpKeys(content, k + 1)

\* json.dumps(content, sort_keys=True, ensure_ascii=False)
json_dumps(content) == <<"{">> \o DumpKeys(content, 1) \o <<"}">>

\* EvidenceObject.verify
EvidenceObject_verify(evidence) ==
    sha256(json_dumps(evidence.content)) = evidence.content_hash

\* MerkleTree._hash_pair: the digest of left + right
hash_pair(left, right) == sha256(left \o right)

\* a level above that leaves the last node of an odd level out
NextLevel_dropping_odd(level) ==
    [k \in 1..(Len(level) \div 2) |-> hash_pair(level[2 * k - 1], level[2 * k])]

\* one pass of the while loop of _build_tree: the level above `level`
NextLevel(level) ==
    [k \in 1..((Len(level) + 1) \div 2) |->
        hash_pair(level[2 * k - 1],
                  IF 2 * k <= Len(level) THEN level[2 * k] ELSE level[2 * k - 1])]

RECURSIVE Levels(_)
Levels(level) ==
    IF Len(level) > 1 THEN <<level>> \o Levels(NextLevel(level)) ELSE <<level>>

\* MerkleTree(): no leaves, no tree
EmptyTree == [leaves |-> <<>>, tree |-> <<>>]

build_tree(mt) ==
    IF mt.leaves = <<>> THEN mt ELSE [mt EXCEPT !.tree = Levels(mt.leaves)]

add_leaf(mt, leaf_hash) == build_tree([mt EXCEPT !.leaves = Append(@, leaf_hash)])

\* MerkleTree.root: Null is None
root(mt) ==
    IF mt.tree = <<>> THEN Null
    ELSE IF mt.tree[Len(mt.tree)] # <<>> THEN mt.tree[Len(mt.tree)][1] ELSE Null

\* root or ""
RootOrEmpty(mt) == IF root(mt) = Null THEN <<>> ELSE root(mt)

\* the loop of get_proof from level lvl on; index counts from 0 as in the code
RECURSIVE ProofFrom(_, _, _)
ProofFrom(tree, lvl, index) ==
    IF lvl >= Len(tree) THEN <<>>
    ELSE LET level == tree[lvl]
             sibling_index == IF index % 2 = 0 THEN index + 1 ELSE index - 1
             position == IF index % 2 = 0 THEN "right" ELSE "left"
         IN  (IF sibling_index < Len(level)
              THEN << <<level[sibling_index + 1], position>> >> ELSE <<>>)
             \o ProofFrom(tree, lvl + 1, index \div 2)

get_proof(mt, leaf_index) ==
    IF leaf_index >= Len(mt.leaves) THEN <<>> ELSE ProofFrom(mt.tree, 1, leaf_index)

RECURSIVE FoldProof(_, _, _)
FoldProof(current, proof, k) ==
    IF k > Len(proof) THEN current
    ELSE FoldProof(IF proof[k][2] = "right"
                   THEN sha256(current \o proof[k][1])
                   ELSE sha256(proof[k][1] \o current),
                   proof, k + 1)

verify_proof(leaf_hash, proof, root_hash) == FoldProof(leaf_hash, proof, 1) = root_hash

\* f"{h}:{p}": the digest, a colon, the position
FormatPathItem(pair) == pair[1] \o <<":", pair[2]>>

\* item.split(":"): the text before the colon and the text after it
SplitPathItem(item) ==
    LET c == CHOOSE i \in 1..Len(item) : item[i] = ":"
    IN  <<SubSeq(item, 1, c - 1), item[c + 1]>>

Genesis == <<"genesis">>

\* XVault.__init__
NewXVault ==
    [evidence_chain |-> <<>>, snapshots |-> <<>>, merkle_tree |-> EmptyTree,
     last_hash |-> Genesis]

\* XVault._sign: the digest of data:timestamp:org_id:signing_key
sign(data, timestamp) ==
    sha256(data \o <<":", ToString(timestamp), ":", "org", ":", "default_key">>)

\* XVault.seal with the clock reading and the uuid4 it draws: [xv, evidence]
XVault_seal_keeping_last_hash(xv, evidence_type, content, timestamp, uuid) ==
    LET content_hash == sha256(json_dumps(content))
        mt == add_leaf(xv.merkle_tree, content_hash)
        evidence == [evidence_id |-> uuid, evidence_type |-> evidence_type,
                     timestamp |-> timestamp, content_hash |-> content_hash,
                     content |-> content,
                     merkle_path |-> [k \in 1..Len(get_proof(mt, Len(mt.leaves) - 1)) |->
                                        FormatPathItem(get_proof(mt, Len(mt.leaves) - 1)[k])],
                     previous_hash |-> xv.last_hash,
                     signature |-> sign(content_hash, timestamp),
                     metadata |-> <<>>]
    IN  [xv |-> [xv EXCEPT !.merkle_tree = mt,
                           !.evidence_chain = Append(@, evidence)],
         evidence |-> evidence]

\* seal with last_hash advanced before the record is built
XVault_seal_linking_to_itself(xv, evidence_type, content, timestamp, uuid) ==
    LET content_hash == sha256(json_dumps(content))
        mt == add_leaf(xv.merkle_tree, content_hash)
        evidence == [evidence_id |-> uuid, evidence_type |-> evidence_type,
                     timestamp |-> timestamp, content_hash |-> content_hash,
                     content |-> content,
                     merkle_path |-> [k \in 1..Len(get_proof(mt, Len(mt.leaves) - 1)) |->
                                        FormatPathItem(get_proof(mt, Len(mt.leaves) - 1)[k])],
                     previous_hash |-> content_hash,
                     signature |-> sign(content_hash, timestamp),
                     metadata |-> <<>>]
    IN  [xv |-> [xv EXCEPT !.merkle_tree = mt,
                           !.evidence_chain = Append(@, evidence),
                           !.last_hash = content_hash],
         evidence |-> evidence]

XVault_seal(xv, evidence_type, content, timestamp, uuid) ==
    LET content_hash == sha256(json_dumps(content))
        mt == add_leaf(xv.merkle_tree, content_hash)
        leaf_index == Len(mt.leaves) - 1
        merkle_proof == get_proof(mt, leaf_index)
        evidence == [evidence_id |-> uuid, evidence_type |-> evidence_type,
                     timestamp |-> timestamp, content_hash |-> content_hash,
                     content |-> content,
                     merkle_path |-> [k \in 1..Len(merkle_proof) |->
                                        FormatPathItem(merkle_proof[k])],
                     previous_hash |-> xv.last_hash,
                     signature |-> sign(content_hash, timestamp),
                     metadata |-> <<>>]
    IN  [xv |-> [xv EXCEPT !.merkle_tree = mt,
                           !.evidence_chain = Append(@, evidence),
                           !.last_hash = content_hash],
         evidence |-> evidence]

\* a snapshot that is never linked to the one before it
create_snapshot_unlinked(xv, knowledge_version, timestamp, uuid) ==
    LET ids == {xv.evidence_chain[i].evidence_id : i \in 1..Len(xv.evidence_chain)}
        LastOf(id) == CHOOSE i \in 1..Len(xv.evidence_chain) :
                         xv.evidence_chain[i].evidence_id = id
        snapshot == [snapshot_id |-> uuid, timestamp |-> timestamp,
                     knowledge_version |-> knowledge_version,
                     object_count |-> Len(xv.evidence_chain),
                     merkle_root |-> RootOrEmpty(xv.merkle_tree),
                     object_hashes |-> [id \in ids |->
                                          xv.evidence_chain[LastOf(id)].content_hash],
                     signature |-> sign(RootOrEmpty(xv.merkle_tree), timestamp),
                     previous_snapshot |-> Null]
    IN  [xv |-> [xv EXCEPT !.snapshots = Append(@, snapshot)], snapshot |-> snapshot]

\* XVault.create_snapshot: [xv, snapshot]; object_hashes maps evidence_id to
\* content_hash
create_snapshot(xv, knowledge_version, timestamp, uuid) ==
    LET ids == {xv.evidence_chain[i].evidence_id : i \in 1..Len(xv.evidence_chain)}
        LastOf(id) == CHOOSE i \in 1..Len(xv.evidence_chain) :
                         /\ xv.evidence_chain[i].evidence_id = id
                         /\ \A j \in (i + 1)..Len(xv.evidence_chain) :
                               xv.evidence_chain[j].evidence_id # id
        snapshot == [snapshot_id |-> uuid, timestamp |-> timestamp,
                     knowledge_version |-> knowledge_version,
                     object_count |-> Len(xv.evidence_chain),
                     merkle_root |-> RootOrEmpty(xv.merkle_tree),
                     object_hashes |-> [id \in ids |->
                                          xv.evidence_chain[LastOf(id)].content_hash],
                     signature |-> sign(RootOrEmpty(xv.merkle_tree), timestamp),
                     previous_snapshot |->
                         IF xv.snapshots # <<>>
                         THEN Val(xv.snapshots[Len(xv.snapshots)].snapshot_id) ELSE Null]
    IN  [xv |-> [xv EXCEPT !.snapshots = Append(@, snapshot)], snapshot |-> snapshot]

InPeriod(seq, period_start, period_end) ==
    SelectSeq(seq, LAMBDA e : period_start <= e.timestamp /\ e.timestamp <= period_end)

\* an export that seals its export event before it assembles the package
export_regulator_package_sealing_first(xv, period_start, period_end, timestamp, uuid) ==
    LET sealed == XVault_seal(xv, "export_event",
                              [package_id |-> ToString(uuid),
                               period_start |-> ToString(period_start),
                               period_end |-> ToString(period_end),
                               evidence_count |->
                                   ToString(Len(InPeriod(xv.evidence_chain,
                                                         period_start, period_end)))],
                              timestamp, uuid + 1)
        filtered_evidence == InPeriod(sealed.xv.evidence_chain, period_start, period_end)
        package == [package_id |-> uuid, created_at |-> timestamp,
                    period_start |-> period_start, period_end |-> period_end,
                    evidence_objects |-> filtered_evidence,
                    snapshots |-> InPeriod(xv.snapshots, period_start, period_end),
                    merkle_root |-> RootOrEmpty(xv.merkle_tree),
                    signature |-> sign(RootOrEmpty(xv.merkle_tree), timestamp)]
    IN  [xv |-> sealed.xv, package |-> package]

\* XVault.export_regulator_package: [xv, package]; the package draws one
\* uuid4 and the seal of the export event the next
export_regulator_package(xv, period_start, period_end, timestamp, uuid) ==
    LET filtered_evidence == InPeriod(xv.evidence_chain, period_start, period_end)
        package == [package_id |-> uuid, created_at |-> timestamp,
                    period_start |-> period_start, period_end |-> period_end,
                    evidence_objects |-> filtered_evidence,
                    snapshots |-> InPeriod(xv.snapshots, period_start, period_end),
                    merkle_root |-> RootOrEmpty(xv.merkle_tree),
                    signature |-> sign(RootOrEmpty(xv.merkle_tree), timestamp)]
        sealed == XVault_seal(xv, "export_event",
                              [package_id |-> ToString(uuid),
                               period_start |-> ToString(period_start),
                               period_end |-> ToString(period_end),
                               evidence_count |-> ToString(Len(filtered_evidence))],
                              timestamp, uuid + 1)
    IN  [xv |-> sealed.xv, package |-> package]

\* XVault.verify_evidence
verify_evidence(xv, evidence) ==
    IF ~EvidenceObject_verify(evidence) THEN FALSE
    ELSE IF evidence.merkle_path # <<>> /\ root(xv.merkle_tree) # Null
         THEN verify_proof(evidence.content_hash,
                           [k \in 1..Len(evidence.merkle_path) |->
                               SplitPathItem(evidence.merkle_path[k])],
                           root(xv.merkle_tree))
         ELSE TRUE

RECURSIVE ChainErrors(_, _)
ChainErrors(chain, i) ==
    IF i > Len(chain) THEN <<>>
    ELSE (IF ~EvidenceObject_verify(chain[i])
          THEN << <<chain[i].evidence_id, "content hash mismatch">> >> ELSE <<>>)
         \o (IF i > 1 /\ chain[i].previous_hash # chain[i - 1].content_hash
             THEN << <<chain[i].evidence_id, "chain broken">> >> ELSE <<>>)
         \o ChainErrors(chain, i + 1)

\* verify_chain returning at the first error
verify_chain_first_error(xv) ==
    [ok |-> ChainErrors(xv.evidence_chain, 1) = <<>>,
     errors |-> IF ChainErrors(xv.evidence_chain, 1) = <<>> THEN <<>>
                ELSE <<ChainErrors(xv.evidence_chain, 1)[1]>>]

\* XVault.verify_chain: (success, errors)
verify_chain(xv) ==
    [ok |-> ChainErrors(xv.evidence_chain, 1) = <<>>,
     errors |-> ChainErrors(xv.evidence_chain, 1)]

(***************************************************************************)
(* State.                                                                  *)
(***************************************************************************)
VARIABLES
    state,    \* engine.db.state: the state dictionary of the API process
    disk,     \* the content of the JSON file at DB_PATH
    peer,     \* the state dictionary of a second Database on the same file
    year,     \* datetime.now().year
    last,     \* the response of the latest handler
    issued,   \* history: the ids generate_next_edi has returned to the API
              \* process, in the order of the calls
    acked,    \* history: <<writer, id>> of every execute answered with success
    xvault,   \* an XVault: evidence_chain, snapshots, merkle_tree, last_hash
    clock,    \* datetime.now(timezone.utc), in ticks
    uuids,    \* the number of uuid4 values drawn
    xret,     \* what the latest XVault method returned
    sent,     \* history: the partition id and the payload of every instruction
              \* that execute answered with success, with the id it returned
    probe     \* the latest call of a function of the code and what it returned

engineVars == <<state, disk, peer, year, last, issued, acked, sent, probe>>
vaultVars == <<xvault, clock, uuids, xret>>
vars == <<state, disk, peer, year, last, issued, acked, xvault, clock, uuids, xret, sent, probe>>

NoResponse == [op |-> "none"] @@ Resp("ok", "", NoId, NoId)

Init ==
    /\ state = EmptyState
    /\ disk = EmptyState
    /\ peer = EmptyState
    /\ year = FirstYear
    /\ last = NoResponse
    /\ issued = <<>>
    /\ acked = {}
    /\ xvault = NewXVault
    /\ clock = 0
    /\ uuids = 0
    /\ xret = [op |-> "none"]
    /\ sent = <<>>
    /\ probe = [op |-> "none"]

Allocated(db) == db.edi_sequence[FirstYear] + db.edi_sequence[FirstYear + 1]
WithinBounds(db) == Allocated(db) <= MaxAlloc

Issue(edi) == IF edi = NoId THEN issued ELSE Append(issued, edi)

Ack(writer, r) ==
    IF r.resp.outcome = "ok" /\ r.edi # NoId
    THEN acked \cup {<<writer, r.resp.eve_decision_id>>} ELSE acked

\* the handler's effect on the API process: its Database and the file
Served(op, r) ==
    /\ WithinBounds(r.db)
    /\ state' = r.db
    /\ disk' = IF r.saved THEN r.db ELSE disk
    /\ last' = [op |-> op] @@ r.resp
    /\ issued' = Issue(r.edi)
    /\ acked' = Ack(1, r)
    /\ UNCHANGED <<peer, year, probe>>
    /\ UNCHANGED vaultVars

Handled(op, r) == Served(op, r) /\ UNCHANGED sent

\* the turn of the year
NewYear ==
    /\ year + 1 \in Years
    /\ year' = year + 1
    /\ UNCHANGED <<state, disk, peer, last, issued, acked, sent, probe>>
    /\ UNCHANGED vaultVars

\* POST /execute_ecl
ExecuteEcl(input, project_id) ==
    \E r \in {execute(state, input, project_id, year)} : Handled("execute", r)

\* the partition id the engine normalizes: the request's, else the instruction's
EffectiveProject(input, p) == IF p = Null THEN Get(input.project_id) ELSE p

\* the payload of an instruction: what the context hash covers besides the
\* partition id
Payload(input) ==
    [system_id |-> input.system_id, use_case |-> input.use_case,
     artifacts |-> input.artifacts, risk_links |-> input.risk_links,
     signoff |-> input.signoff]

\* POST /execute_ecl, with the accepted instruction kept in the history
ExecuteInPartition(input, project_id) ==
    \E r \in {execute(state, input, project_id, year)} :
        /\ Served("execute", r)
        /\ sent' = IF r.resp.outcome = "ok" /\ r.edi # NoId
                   THEN Append(sent, [eve_decision_id |-> r.resp.eve_decision_id,
                                      partition |-> EffectiveProject(input, project_id),
                                      payload |-> Payload(input)])
                   ELSE sent

\* POST /validate_ecl
ValidateEcl(input) ==
    \E r \in {validate(state, input)} : Handled("validate", r)

\* POST /verify: VerifyRequest admits only ^EVE-\d{4}-\d{6}$
VerifyEndpoint(id) ==
    Handled("verify",
            IF MatchesEdiRegex(id) THEN Done(state, FALSE, NoId, verify(state, id))
            ELSE Done(state, FALSE, NoId, Resp("error", "422", NoId, NoId)))

\* POST /replay
ReplayEndpoint(id) ==
    Handled("replay",
            IF MatchesEdiRegex(id) THEN Done(state, FALSE, NoId, replay(state, id))
            ELSE Done(state, FALSE, NoId, Resp("error", "422", NoId, NoId)))

\* POST /artifact/create
CreateArtifact(artifact_id) ==
    LET db == create_artifact(state, artifact_id)
    IN  Handled("artifact_create", Done(db, db # state, NoId, Resp("ok", "", NoId, NoId)))

\* POST /artifact/propose
ProposeArtifact(artifact_id) ==
    LET db == propose_artifact(state, artifact_id)
    IN  Handled("artifact_propose", Done(db, db # state, NoId, Resp("ok", "", NoId, NoId)))

\* POST /api/v1/trinity/approvals/approve.  For a knowledge item the handler
\* imports knowledge_release_pipeline and, when that module is installed
\* (importable), draws an id from generate_next_edi for the release.
approve_item(db, type, id, note, importable, now_year) ==
    LET approval == [type |-> type, id |-> id,
                     status |-> IF TruthyStr(note) THEN "APPROVED_WITH_NOTE" ELSE "APPROVED"]
        d1 == save_approval(db, approval)
    IN  IF type = "knowledge" /\ importable
        THEN LET g == generate_next_edi(d1, now_year)
             IN  Done(g.db, TRUE, g.id, Resp("ok", "", NoId, NoId))
        ELSE Done(d1, TRUE, NoId, Resp("ok", "", NoId, NoId))

ApproveItem(type, id, note, importable) ==
    \E r \in {approve_item(state, type, id, note, importable, year)} : Handled("approve", r)

\* POST /api/v1/trinity/approvals/reject
reject_item(db, type, id) ==
    Done(save_approval(db, [type |-> type, id |-> id, status |-> "REJECTED"]),
         TRUE, NoId, Resp("ok", "", NoId, NoId))

RejectItem(type, id) ==
    \E r \in {reject_item(state, type, id)} : Handled("reject", r)

\* A second DecisionEngine on the same DB_PATH (the MCP server, a second API
\* process): its Database holds its own copy of the file, read once in
\* __init__, and _save writes that copy over the file.
PeerExecuteEcl(input) ==
    \E r \in {execute(peer, input, Null, year)} :
        /\ WithinBounds(r.db)
        /\ peer' = r.db
        /\ disk' = IF r.saved THEN r.db ELSE disk
        /\ acked' = Ack(2, r)
        /\ UNCHANGED <<state, year, last, issued, sent, probe>>
        /\ UNCHANGED vaultVars

\* the API process starts again: Database.__init__ reads the file
Restart ==
    /\ state # disk
    /\ state' = disk
    /\ UNCHANGED <<disk, peer, year, last, issued, acked, sent, probe>>
    /\ UNCHANGED vaultVars

\* the second process starts again
PeerRestart ==
    /\ peer # disk
    /\ peer' = disk
    /\ UNCHANGED <<state, disk, year, last, issued, acked, sent, probe>>
    /\ UNCHANGED vaultVars

\* the evidence types callers seal with
EvidenceTypes == {"system_event"}
\* the dictionaries callers seal
Contents == {[action |-> "approve"], [action |-> "reject"]}
KnowledgeVersions == {"v1"}
\* the (period_start, period_end) pairs of export requests
Periods == {<<0, 1>>, <<1, 1>>}

\* time passes
Tick ==
    /\ clock + 1 \in Times
    /\ clock' = clock + 1
    /\ UNCHANGED <<xvault, uuids, xret>>
    /\ UNCHANGED engineVars

\* vault.seal(evidence_type, content)
Seal(evidence_type, content) ==
    /\ Len(xvault.evidence_chain) < MaxEvidence
    /\ \E r \in {XVault_seal(xvault, evidence_type, content, clock, uuids + 1)} :
          /\ xvault' = r.xv
          /\ xret' = [op |-> "seal", evidence |-> r.evidence]
    /\ uuids' = uuids + 1
    /\ UNCHANGED clock
    /\ UNCHANGED engineVars

\* vault.create_snapshot(knowledge_version)
CreateSnapshot(knowledge_version) ==
    /\ Len(xvault.snapshots) < MaxSnapshots
    /\ \E r \in {create_snapshot(xvault, knowledge_version, clock, uuids + 1)} :
          /\ xvault' = r.xv
          /\ xret' = [op |-> "create_snapshot", snapshot |-> r.snapshot]
    /\ uuids' = uuids + 1
    /\ UNCHANGED clock
    /\ UNCHANGED engineVars

\* vault.export_regulator_package(period_start, period_end)
ExportRegulatorPackage(period) ==
    /\ Len(xvault.evidence_chain) < MaxEvidence
    /\ \E r \in {export_regulator_package(xvault, period[1], period[2], clock, uuids + 1)} :
          /\ xvault' = r.xv
          /\ xret' = [op |-> "export", package |-> r.package]
    /\ uuids' = uuids + 2
    /\ UNCHANGED clock
    /\ UNCHANGED engineVars

\* vault.verify_evidence(e) for the i-th sealed evidence object
VerifyEvidence(i) ==
    /\ xret' = [op |-> "verify_evidence", index |-> i,
                result |-> verify_evidence(xvault, xvault.evidence_chain[i])]
    /\ UNCHANGED <<xvault, clock, uuids>>
    /\ UNCHANGED engineVars

\* vault.verify_chain()
VerifyChain ==
    /\ xret' = [op |-> "verify_chain", result |-> verify_chain(xvault)]
    /\ UNCHANGED <<xvault, clock, uuids>>
    /\ UNCHANGED engineVars


\* the partition ids callers send: every string of at most MaxIdLen characters
\* of a small alphabet, the fallback partition's name, and strings of the
\* greatest admitted length and one more
MaxIdLen == 3
IdAlphabet == {"a", "1", "-", "A", "\n"}
RECURSIVE StringsOfLen(_)
StringsOfLen(n) ==
    IF n = 0 THEN {<<>>}
    ELSE {Append(t, c) : t \in StringsOfLen(n - 1), c \in IdAlphabet}
ProjectIdInputs ==
    {Null}
    \cup {Val(t) : t \in UNION {StringsOfLen(n) : n \in 0..MaxIdLen}}
    \cup {Val(LegacyProject),
          Val([i \in 1..MaxProjectLen |-> "a"]),
          Val([i \in 1..(MaxProjectLen + 1) |-> "a"])}

\* a call of normalize_project_id(project_id)
Normalize(pid) ==
    /\ probe' = [op |-> "normalize_project_id", input |-> pid,
                 result |-> normalize_project_id(pid)]
    /\ UNCHANGED <<state, disk, peer, year, last, issued, acked, sent>>
    /\ UNCHANGED vaultVars

(***************************************************************************)
(* Spec: the Decision Engine of one API process.                           *)
(***************************************************************************)
Next ==
    \/ \E input \in Inputs : ExecuteEcl(input, Null)
    \/ \E input \in OverrideInputs, p \in ApiProjectIds : ExecuteEcl(input, p)
    \/ NewYear

Spec == Init /\ [][Next]_vars

(***************************************************************************)
(* SpecRegistry: the Decision Engine with all its endpoints and the        *)
(* approval registry.                                                      *)
(***************************************************************************)
RegistryInputs ==
    { Classify(Missing, Missing),
      Classify(Val(BadProject), Missing),
      Classify(Missing, Val(Edi(FirstYear, 1))),
      Ecl("text", "CLASSIFY", Val("acme-sys"), Val(ClassifyArtifacts), Missing,
          Missing, Missing, Missing),
      EclRead("QUERY", Missing, Missing) }

NextRegistry ==
    \/ \E input \in RegistryInputs : ExecuteEcl(input, Null)
    \/ \E input \in RegistryInputs : ValidateEcl(input)
    \/ \E id \in ReadIds : VerifyEndpoint(id)
    \/ \E id \in ReadIds : ReplayEndpoint(id)
    \/ \E type \in ApprovalTypes, id \in ApprovalIds, note \in ApprovalNotes,
          importable \in BOOLEAN : ApproveItem(type, id, note, importable)
    \/ \E type \in ApprovalTypes, id \in ApprovalIds : RejectItem(type, id)
    \/ NewYear

SpecRegistry == Init /\ [][NextRegistry]_vars

(***************************************************************************)
(* SpecShared: two Decision Engines on the same file.                      *)
(***************************************************************************)
SharedInputs ==
    { Classify(Missing, Missing), Classify(Missing, Val(Edi(FirstYear, 1))) }

NextShared ==
    \/ \E input \in SharedInputs : ExecuteEcl(input, Null)
    \/ \E input \in SharedInputs : PeerExecuteEcl(input)
    \/ Restart
    \/ PeerRestart

SpecShared == Init /\ [][NextShared]_vars

(***************************************************************************)
(* SpecVault: one XVault and its callers.                                  *)
(***************************************************************************)
NextVault ==
    \/ \E evidence_type \in EvidenceTypes, content \in Contents :
          Seal(evidence_type, content)
    \/ \E knowledge_version \in KnowledgeVersions : CreateSnapshot(knowledge_version)
    \/ \E period \in Periods : ExportRegulatorPackage(period)
    \/ \E i \in 1..Len(xvault.evidence_chain) : VerifyEvidence(i)
    \/ VerifyChain
    \/ Tick

SpecVault == Init /\ [][NextVault]_vars

(***************************************************************************)
(* SpecPartition: one Decision Engine that receives the same payloads      *)
(* under different partition ids.                                          *)
(***************************************************************************)
BetaProject == <<"b", "2">>

PartitionInputs ==
    { Classify(Missing, Missing),
      Classify(Val(AlphaProject), Missing),
      Classify(Val(LegacyProject), Missing),
      Ecl("text", "ACCEPT_RISK", Val("acme-sys"), Val(RiskArtifacts), Val(<<"RISK-1">>),
          Val(RiskSignoff), Missing, Missing) }

PartitionApiIds == {Null, Val(<<>>), Val(BetaProject), Val(BadProject)}

NextPartition ==
    \/ \E input \in PartitionInputs, p \in PartitionApiIds : ExecuteInPartition(input, p)
    \/ NewYear

SpecPartition == Init /\ [][NextPartition]_vars

(***************************************************************************)
(* SpecNormalize: calls of normalize_project_id.                           *)
(***************************************************************************)
NextNormalize == \E pid \in ProjectIdInputs : Normalize(pid)

SpecNormalize == Init /\ [][NextNormalize]_vars

(***************************************************************************)
(* MerkleTree on its own: a tree grown leaf by leaf, a proof drawn from it *)
(* and the proof verified for a claimed leaf hash.                         *)
(***************************************************************************)
MaxLeaves == 5
LeafHashes == {sha256(<<"a">>), sha256(<<"b">>)}

ProbedTree == IF probe.op = "none" THEN EmptyTree ELSE probe.mt

\* MerkleTree.add_leaf
MerkleAddLeaf(leaf_hash) ==
    /\ probe.op \in {"none", "add_leaf", "get_proof", "verify_proof"}
    /\ Len(ProbedTree.leaves) < MaxLeaves
    /\ probe' = [op |-> "add_leaf", mt |-> add_leaf(ProbedTree, leaf_hash)]
    /\ UNCHANGED <<state, disk, peer, year, last, issued, acked, sent>>
    /\ UNCHANGED vaultVars

\* MerkleTree.get_proof
MerkleGetProof(leaf_index) ==
    /\ probe.op \in {"add_leaf", "get_proof", "verify_proof"}
    /\ leaf_index <= Len(probe.mt.leaves)
    /\ probe' = [op |-> "get_proof", mt |-> probe.mt, leaf_index |-> leaf_index,
                 proof |-> get_proof(probe.mt, leaf_index)]
    /\ UNCHANGED <<state, disk, peer, year, last, issued, acked, sent>>
    /\ UNCHANGED vaultVars

\* MerkleTree.verify_proof of the proof drawn, against the tree's root
MerkleVerifyProof(leaf_hash) ==
    /\ probe.op = "get_proof"
    /\ probe' = [op |-> "verify_proof", mt |-> probe.mt,
                 leaf_index |-> probe.leaf_index, proof |-> probe.proof,
                 leaf_hash |-> leaf_hash,
                 result |-> verify_proof(leaf_hash, probe.proof, root(probe.mt))]
    /\ UNCHANGED <<state, disk, peer, year, last, issued, acked, sent>>
    /\ UNCHANGED vaultVars

NextMerkle ==
    \/ \E leaf_hash \in LeafHashes : MerkleAddLeaf(leaf_hash)
    \/ \E leaf_index \in 0..MaxLeaves : MerkleGetProof(leaf_index)
    \/ \E leaf_hash \in LeafHashes : MerkleVerifyProof(leaf_hash)

SpecMerkle == Init /\ [][NextMerkle]_vars

(***************************************************************************)
(* SpecTamper: a vault whose stored EvidenceObjects somebody with access   *)
(* to the process or its storage edits after sealing.  probe records which *)
(* records were edited and how; every record is edited at most once.       *)
(***************************************************************************)
NoTampering == [op |-> "tamper", content |-> {}, rehash |-> {}, previous |-> {}]

Tampering == IF probe.op = "tamper" THEN probe ELSE NoTampering

Tampered == Tampering.content \cup Tampering.rehash \cup Tampering.previous

Untampered == (1..Len(xvault.evidence_chain)) \ Tampered

\* evidence.content = content
TamperContent(i, content) ==
    /\ probe.op \in {"none", "tamper"}
    /\ i \in Untampered
    /\ content # xvault.evidence_chain[i].content
    /\ xvault' = [xvault EXCEPT !.evidence_chain[i].content = content]
    /\ probe' = [Tampering EXCEPT !.content = @ \cup {i}]
    /\ UNCHANGED <<state, disk, peer, year, last, issued, acked, sent>>
    /\ UNCHANGED <<clock, uuids, xret>>

\* evidence.content = content; evidence.content_hash = the digest of content
TamperRehash(i, content) ==
    /\ probe.op \in {"none", "tamper"}
    /\ i \in Untampered
    /\ content # xvault.evidence_chain[i].content
    /\ xvault' = [xvault EXCEPT !.evidence_chain[i].content = content,
                                !.evidence_chain[i].content_hash =
                                    sha256(json_dumps(content))]
    /\ probe' = [Tampering EXCEPT !.rehash = @ \cup {i}]
    /\ UNCHANGED <<state, disk, peer, year, last, issued, acked, sent>>
    /\ UNCHANGED <<clock, uuids, xret>>

\* evidence.previous_hash = previous_hash
TamperPrevious(i, previous_hash) ==
    /\ probe.op \in {"none", "tamper"}
    /\ i \in Untampered
    /\ previous_hash # xvault.evidence_chain[i].previous_hash
    /\ xvault' = [xvault EXCEPT !.evidence_chain[i].previous_hash = previous_hash]
    /\ probe' = [Tampering EXCEPT !.previous = @ \cup {i}]
    /\ UNCHANGED <<state, disk, peer, year, last, issued, acked, sent>>
    /\ UNCHANGED <<clock, uuids, xret>>

ForgedHashes == {Genesis} \cup {sha256(json_dumps(c)) : c \in Contents}

NextTamper ==
    \/ \E evidence_type \in EvidenceTypes, content \in Contents :
          Seal(evidence_type, content)
    \/ \E i \in 1..MaxEvidence, content \in Contents : TamperContent(i, content)
    \/ \E i \in 1..MaxEvidence, content \in Contents : TamperRehash(i, content)
    \/ \E i \in 1..MaxEvidence, h \in ForgedHashes : TamperPrevious(i, h)
    \/ \E i \in 1..Len(xvault.evidence_chain) : VerifyEvidence(i)
    \/ VerifyChain

SpecTamper == Init /\ [][NextTamper]_vars

(***************************************************************************)
(* SpecValidate: ECLValidator.validate called on the commands the parser   *)
(* can hand it: a key is Missing (text form without the line), Null (JSON  *)
(* form without the key) or present.                                       *)
(***************************************************************************)
ChangeArtifacts == <<"CDOC-CHANGE-1", "cdoc-impact-1">>
ChangeSignoff ==
    <<[role |-> "System Owner", actor_id |-> "anna"],
      [role |-> "Compliance Owner", actor_id |-> "joakim"]>>

Command(verb, system_id, use_case, artifacts, risk_links, signoff) ==
    [type |-> "decision", verb |-> verb,
     params |-> [k \in ParamKeys |->
                   CASE k = "system_id" -> system_id
                     [] k = "use_case" -> use_case
                     [] k = "artifacts" -> artifacts
                     [] k = "risk_links" -> risk_links
                     [] k = "signoff" -> signoff
                     [] OTHER -> Missing]]

\* absent is Missing in the text form and Null in the JSON form
ValidatorCommandsOf(absent) ==
    { Command(verb, system_id, use_case, artifacts, risk_links, signoff) :
        verb \in {"CLASSIFY", "ACCEPT_RISK", "APPROVE_CHANGE"},
        system_id \in {absent, Val(""), Val("acme-sys")},
        use_case \in {absent, Val("onboarding")},
        artifacts \in {absent, Val(<<>>), Val(<<ScopeDoc>>), Val(ClassifyArtifacts),
                       Val(RiskArtifacts), Val(ChangeArtifacts)},
        risk_links \in {absent, Val(<<>>), Val(<<"RISK-1">>)},
        signoff \in {absent, Val(<<>>), Val(ClassifySignoff), Val(RiskSignoff),
                     Val(ChangeSignoff)} }

ValidatorCommands == ValidatorCommandsOf(Missing) \cup ValidatorCommandsOf(Null)

\* validator.validate(command); the validator keeps no state, so every call
\* is made from the initial state
Validate(command) ==
    /\ probe.op = "none"
    /\ probe' = [op |-> "validate", command |-> command,
                 result |-> ECLValidator_validate(command)]
    /\ UNCHANGED <<state, disk, peer, year, last, issued, acked, sent>>
    /\ UNCHANGED vaultVars

NextValidate == \E command \in ValidatorCommands : Validate(command)

SpecValidate == Init /\ [][NextValidate]_vars

(***************************************************************************)
(* SpecReads: one Decision Engine whose decisions are read back: dry runs, *)
(* the verify and replay endpoints and the ECL read verbs, between writes. *)
(***************************************************************************)
ReadsWriteInputs ==
    { Classify(Missing, Missing), Classify(Missing, Val(Edi(FirstYear, 1))) }

\* instructions that name a decision by an id not of the form EVE-dddd-dddddd:
\* EVE REPLAY, EVE VERIFY and a CLASSIFY with a SUPERSEDES line
MalformedIdInputs ==
    { EclRead(v, Val(MalformedId), Missing) : v \in {"REPLAY", "VERIFY"} }
    \cup { Classify(Missing, Val(MalformedId)) }

NextReads ==
    \/ \E input \in ReadsWriteInputs \cup ReadInputs \cup MalformedIdInputs,
          p \in {Null, Val(BadProject)} :
          ExecuteEcl(input, p)
    \/ \E input \in ValidateInputs : ValidateEcl(input)
    \/ \E id \in ReadIds : VerifyEndpoint(id)
    \/ \E id \in ReadIds : ReplayEndpoint(id)

SpecReads == Init /\ [][NextReads]_vars

(***************************************************************************)
(* approver_registry.py: the ApproverRegistry.  An approver id is "key:" or *)
(* "demo:" followed by the first twelve hex digits of the SHA-256 of the   *)
(* email; the registry is a dictionary of Approver records plus an audit   *)
(* log, written to REGISTRY_PATH by every method that changes it.          *)
(***************************************************************************)
FOUNDER_ID == "key:founder_joakim"

AllRoles == <<"founder", "legal_reviewer", "technical_reviewer", "compliance_officer">>

Emails == {"eva@organiq.se", "mallory@example.org"}

\* hashlib.sha256(email.encode()).hexdigest()[:12]
Digest12(email) == "sha256/12(" \o email \o ")"

KeyId(email) == "key:" \o Digest12(email)
DemoId(email) == "demo:" \o Digest12(email)

\* the lists of roles a caller passes
RoleLists == {<<"legal_reviewer">>, <<"founder">>}

\* the ids a caller passes as granted_by_id, revoked_by_id or approver_id
CallerIds == {FOUNDER_ID} \cup {KeyId(e) : e \in Emails} \cup {DemoId(e) : e \in Emails}

MaxAudit == 4

HasRole(role, roles) == \E i \in DOMAIN roles : roles[i] = role

Approver(approver_id, email, roles, can_verify_trinity, granted_by, notes) ==
    [approver_id |-> approver_id, email |-> email, roles |-> roles,
     can_verify_trinity |-> can_verify_trinity, granted_by |-> granted_by,
     active |-> TRUE, notes |-> notes]

\* self.approvers[approver.approver_id] = approver
PutApprover(approvers, approver) ==
    [id \in DOMAIN approvers \cup {approver.approver_id} |->
        IF id = approver.approver_id THEN approver ELSE approvers[id]]

\* ApproverRegistry._log_audit
log_audit(reg, action, detail, target, actor) ==
    [reg EXCEPT !.audit_log = Append(@, [action |-> action, detail |-> detail,
                                         target |-> target, actor |-> actor])]

\* ApproverRegistry._save_registry
save_registry(reg) ==
    [reg EXCEPT !.file = [approvers |-> reg.approvers, audit_log |-> reg.audit_log]]

\* ApproverRegistry._bootstrap_founder on an empty registry
bootstrap_founder ==
    LET founder == Approver(FOUNDER_ID, "joakim@organiq.se", AllRoles, TRUE,
                            "BOOTSTRAP", <<"Root of trust - Founder bootstrap">>)
        empty == [approvers |-> <<>>, audit_log |-> <<>>,
                  file |-> [approvers |-> <<>>, audit_log |-> <<>>]]
    IN save_registry(log_audit([empty EXCEPT !.approvers = PutApprover(<<>>, founder)],
                               "BOOTSTRAP", "FOUNDER_CREATED", FOUNDER_ID, "SYSTEM"))

\* what a method of the registry gives: the registry after it and the
\* exception it raised, "" when it returned
RegDone(reg, raised) == [reg |-> reg, raised |-> raised]

\* ApproverRegistry.grant_trinity_access
grant_trinity_access(reg, email, roles, granted_by_id) ==
    LET granter_ok ==
            \/ granted_by_id = FOUNDER_ID
            \/ /\ granted_by_id \in DOMAIN reg.approvers
               /\ HasRole("founder", reg.approvers[granted_by_id].roles)
        approver_id == KeyId(email)
        approver == Approver(approver_id, email, roles, TRUE, granted_by_id, <<>>)
    IN  IF ~granter_ok
        THEN RegDone(save_registry(log_audit(reg, "DENIED",
                         "TRINITY_ACCESS_ATTEMPT_BY_NON_FOUNDER", email, granted_by_id)),
                     "PermissionError")
        ELSE IF approver_id \in DOMAIN reg.approvers
        THEN RegDone(reg, "ValueError")
        ELSE RegDone(save_registry(log_audit(
                         [reg EXCEPT !.approvers = PutApprover(@, approver)],
                         "GRANT", "TRINITY_ACCESS", approver_id, granted_by_id)), "")

\* ApproverRegistry.add_demo_user
add_demo_user(reg, email, roles) ==
    LET approver_id == DemoId(email)
        approver == Approver(approver_id, email, roles, FALSE, "DEMO_REGISTRATION",
                             <<"Demo user - cannot verify to Trinity">>)
    IN  IF approver_id \in DOMAIN reg.approvers
        THEN RegDone(reg, "ValueError")
        ELSE RegDone(save_registry(log_audit(
                         [reg EXCEPT !.approvers = PutApprover(@, approver)],
                         "REGISTER", "DEMO_USER", approver_id, "DEMO_REGISTRATION")), "")

\* ApproverRegistry.revoke_trinity_access
revoke_trinity_access(reg, approver_id, revoked_by_id) ==
    IF revoked_by_id # FOUNDER_ID THEN RegDone(reg, "PermissionError")
    ELSE IF approver_id \notin DOMAIN reg.approvers THEN RegDone(reg, "ValueError")
    ELSE RegDone(save_registry(log_audit(
                     [reg EXCEPT !.approvers[approver_id].can_verify_trinity = FALSE,
                                 !.approvers[approver_id].notes = Append(@, "REVOKED")],
                     "REVOKE", "TRINITY_ACCESS", approver_id, revoked_by_id)), "")

\* ApproverRegistry.can_verify
can_verify(reg, approver_id) ==
    /\ approver_id \in DOMAIN reg.approvers
    /\ reg.approvers[approver_id].active
    /\ reg.approvers[approver_id].can_verify_trinity

\* ApproverRegistry.verify_for_role
verify_for_role(reg, approver_id, required_role) ==
    /\ can_verify(reg, approver_id)
    /\ HasRole(required_role, reg.approvers[approver_id].roles)

\* the registry of the process: bootstrapped by the constructor when
\* REGISTRY_PATH does not exist
ProbedRegistry == IF probe.op = "none" THEN bootstrap_founder ELSE probe.reg

RegistryCall(op, done) ==
    /\ probe.op \in {"none", "grant_trinity_access", "add_demo_user",
                     "revoke_trinity_access", "restart"}
    /\ Len(ProbedRegistry.audit_log) < MaxAudit
    /\ probe' = [op |-> op, reg |-> done.reg, raised |-> done.raised]
    /\ UNCHANGED <<state, disk, peer, year, last, issued, acked, sent>>
    /\ UNCHANGED vaultVars

GrantTrinityAccess(email, roles, granted_by_id) ==
    RegistryCall("grant_trinity_access",
                 grant_trinity_access(ProbedRegistry, email, roles, granted_by_id))

AddDemoUser(email, roles) ==
    RegistryCall("add_demo_user", add_demo_user(ProbedRegistry, email, roles))

RevokeTrinityAccess(approver_id, revoked_by_id) ==
    RegistryCall("revoke_trinity_access",
                 revoke_trinity_access(ProbedRegistry, approver_id, revoked_by_id))

\* a new process: ApproverRegistry() reads the file back (_load_registry)
RegistryRestart ==
    RegistryCall("restart",
                 RegDone([approvers |-> ProbedRegistry.file.approvers,
                          audit_log |-> ProbedRegistry.file.audit_log,
                          file |-> ProbedRegistry.file], ""))

NextApprovers ==
    \/ \E email \in Emails, roles \in RoleLists, granted_by_id \in CallerIds :
          GrantTrinityAccess(email, roles, granted_by_id)
    \/ \E email \in Emails, roles \in RoleLists : AddDemoUser(email, roles)
    \/ \E approver_id \in CallerIds, revoked_by_id \in CallerIds :
          RevokeTrinityAccess(approver_id, revoked_by_id)
    \/ RegistryRestart

SpecApprovers == Init /\ [][NextApprovers]_vars

(***************************************************************************)
(* artifact.py and verified_approval.py: the Artifact record, its status   *)
(* invariants, and the VerifiedApprovalManager, which keeps the artifacts  *)
(* it was handed in a dictionary and writes each to ARTIFACTS_PATH.  The   *)
(* manager's XVault lives in memory only: a new process starts with an     *)
(* empty vault and the artifacts read back from the files.                 *)
(***************************************************************************)
\* ArtifactStatus, in the order of the lifecycle
VALID_TRANSITIONS ==
    [draft |-> {"submitted"}, submitted |-> {"approved"}, approved |-> {"verified"},
     verified |-> {"superseded", "revoked"}, superseded |-> {}, revoked |-> {}]

ManagedIds == {"KNOWLEDGE-2026-A1B2C3", "KNOWLEDGE-2026-D4E5F6"}
ArtifactContents == {[body |-> "test content"]}
ArtifactVersion == "v1"

\* ArtifactFactory.compute_content_hash
compute_content_hash(content) == <<"sha256:">> \o sha256(json_dumps(content))

\* Lineage()
NewLineage == [previous_versions |-> <<>>, superseded_by |-> Null, supersede_reason |-> Null]

\* ArtifactFactory.create_draft, with the id its uuid4 gave
create_draft(artifact_id, content) ==
    [artifact_id |-> artifact_id, version |-> ArtifactVersion, content |-> content,
     content_hash |-> compute_content_hash(content), status |-> "draft",
     approval |-> Null, x_vault |-> Null, lineage |-> NewLineage,
     verified_at |-> Null, updated_at |-> Null]

\* Artifact.validate_invariants: the list of errors
validate_invariants(artifact) ==
    (IF /\ artifact.status \in {"submitted", "approved", "verified", "superseded"}
        /\ artifact.content_hash = <<>>
     THEN <<"SUBMITTED+ needs content_hash">> ELSE <<>>)
    \o (IF artifact.status \in {"approved", "verified", "superseded"}
        THEN IF artifact.approval = Null THEN <<"APPROVED+ needs approval">>
             ELSE IF artifact.approval[2].approval_id = 0
             THEN <<"APPROVED+ needs approval.approval_id">> ELSE <<>>
        ELSE <<>>)
    \o (IF artifact.status \in {"verified", "superseded"}
        THEN (IF artifact.x_vault = Null THEN <<"VERIFIED+ needs x_vault">>
              ELSE IF artifact.x_vault[2].snapshot_id = Null
              THEN <<"VERIFIED+ needs x_vault.snapshot_id">>
              ELSE IF artifact.x_vault[2].merkle_root \in {Null, Val(<<>>)}
              THEN <<"VERIFIED+ needs x_vault.merkle_root">> ELSE <<>>)
             \o (IF artifact.verified_at = Null
                 THEN <<"VERIFIED+ needs verified_at">> ELSE <<>>)
        ELSE <<>>)
    \o (IF /\ artifact.status = "superseded"
           /\ artifact.lineage.superseded_by = Null
        THEN <<"SUPERSEDED needs lineage.superseded_by">> ELSE <<>>)

\* the registry the manager reads: the founder, an approver the founder gave
\* the role of legal reviewer, and a demo user
ManagerRegistry ==
    add_demo_user(
        grant_trinity_access(bootstrap_founder, "eva@organiq.se",
                             <<"legal_reviewer">>, FOUNDER_ID).reg,
        "mallory@example.org", <<"legal_reviewer">>).reg

\* the approver ids and roles callers pass: the legal reviewer and the demo user
ManagerApprovers == {KeyId("eva@organiq.se"), DemoId("mallory@example.org")}
ManagerRoles == {"legal_reviewer", "technical_reviewer"}

\* the uuid4 values one run draws
MaxUuids == 4

\* VerifiedApprovalManager.__init__ with no artifact files
NewManager == [artifacts |-> <<>>, files |-> <<>>]

\* self.artifacts[artifact.artifact_id] = artifact
PutArtifact(artifacts, artifact) ==
    [id \in DOMAIN artifacts \cup {artifact.artifact_id} |->
        IF id = artifact.artifact_id THEN artifact ELSE artifacts[id]]

\* VerifiedApprovalManager._save_artifact of the artifact stored under id
save_artifact(mgr, artifact_id) ==
    [mgr EXCEPT !.files = PutArtifact(@, mgr.artifacts[artifact_id])]

\* what a method of the manager gives: the manager and the vault after it,
\* the number of uuid4 values drawn and the exception raised, "" when none
MgrDone(mgr, xv, draws, raised) ==
    [mgr |-> mgr, xv |-> xv, draws |-> draws, raised |-> raised]

\* VerifiedApprovalManager.submit
submit(mgr, xv, artifact, timestamp) ==
    IF artifact.status # "draft" THEN MgrDone(mgr, xv, 0, "StateTransitionError")
    ELSE IF artifact.content_hash = <<>> THEN MgrDone(mgr, xv, 0, "StateTransitionError")
    ELSE IF compute_content_hash(artifact.content) # artifact.content_hash
    THEN MgrDone(mgr, xv, 0, "StateTransitionError")
    ELSE LET submitted == [artifact EXCEPT !.status = "submitted",
                                           !.updated_at = Val(timestamp)]
         IN  IF validate_invariants(submitted) # <<>>
             THEN MgrDone(mgr, xv, 0, "StateTransitionError")
             ELSE MgrDone(save_artifact(
                              [mgr EXCEPT !.artifacts = PutArtifact(@, submitted)],
                              artifact.artifact_id),
                          xv, 0, "")

\* VerifiedApprovalManager.approve
approve(mgr, xv, artifact_id, approver_id, role, timestamp, uuid) ==
    IF artifact_id \notin DOMAIN mgr.artifacts THEN MgrDone(mgr, xv, 0, "ApprovalError")
    ELSE IF mgr.artifacts[artifact_id].status # "submitted"
    THEN MgrDone(mgr, xv, 0, "StateTransitionError")
    ELSE IF ~can_verify(ManagerRegistry, approver_id)
    THEN MgrDone(mgr, xv, 0, "ApprovalError")
    ELSE IF ~verify_for_role(ManagerRegistry, approver_id, role)
    THEN MgrDone(mgr, xv, 0, "ApprovalError")
    ELSE LET artifact == mgr.artifacts[artifact_id]
             sealed == XVault_seal(xv, "authorization_decision",
                           [decision |-> "APPROVED", artifact_id |-> artifact_id,
                            artifact_hash |-> artifact.content_hash,
                            approver_id |-> approver_id, role |-> role],
                           timestamp, uuid)
             approved ==
                 [artifact EXCEPT
                    !.approval = Val([approval_id |-> sealed.evidence.evidence_id,
                                      approver_id |-> approver_id, role |-> role]),
                    !.x_vault = Val([authorization_evidence_id |->
                                         Val(sealed.evidence.evidence_id),
                                     snapshot_id |-> Null, merkle_root |-> Null]),
                    !.status = "approved",
                    !.updated_at = Val(timestamp)]
             mutated == [mgr EXCEPT !.artifacts[artifact_id] = approved]
         IN  IF validate_invariants(approved) # <<>>
             THEN MgrDone(mutated, sealed.xv, 1, "StateTransitionError")
             ELSE MgrDone(save_artifact(mutated, artifact_id), sealed.xv, 1, "")

\* VerifiedApprovalManager.seal: the snapshot is taken before the
\* KNOWLEDGE_PUBLISH evidence is sealed, and the artifact is changed before
\* its invariants are validated
seal(mgr, xv, artifact_id, timestamp, uuid) ==
    IF artifact_id \notin DOMAIN mgr.artifacts THEN MgrDone(mgr, xv, 0, "SealError")
    ELSE IF mgr.artifacts[artifact_id].status # "approved"
    THEN MgrDone(mgr, xv, 0, "StateTransitionError")
    ELSE IF mgr.artifacts[artifact_id].approval = Null
    THEN MgrDone(mgr, xv, 0, "SealError")
    ELSE LET artifact == mgr.artifacts[artifact_id]
             snap == create_snapshot(xv, <<artifact_id, "@", artifact.version>>,
                                     timestamp, uuid)
             sealed == XVault_seal(snap.xv, "knowledge_publish",
                           [artifact_id |-> artifact_id,
                            artifact_hash |-> artifact.content_hash,
                            snapshot_id |-> snap.snapshot.snapshot_id,
                            merkle_root |-> snap.snapshot.merkle_root],
                           timestamp, uuid + 1)
             verified ==
                 [artifact EXCEPT
                    !.x_vault = Val([authorization_evidence_id |->
                                         artifact.x_vault[2].authorization_evidence_id,
                                     snapshot_id |-> Val(snap.snapshot.snapshot_id),
                                     merkle_root |-> Val(snap.snapshot.merkle_root)]),
                    !.status = "verified",
                    !.verified_at = Val(timestamp),
                    !.updated_at = Val(timestamp)]
             mutated == [mgr EXCEPT !.artifacts[artifact_id] = verified]
         IN  IF validate_invariants(verified) # <<>>
             THEN MgrDone(mutated, sealed.xv, 2, "StateTransitionError")
             ELSE MgrDone(save_artifact(mutated, artifact_id), sealed.xv, 2, "")

\* VerifiedApprovalManager.reject
reject(mgr, xv, artifact_id, approver_id, timestamp, uuid) ==
    IF artifact_id \notin DOMAIN mgr.artifacts THEN MgrDone(mgr, xv, 0, "ApprovalError")
    ELSE IF ~can_verify(ManagerRegistry, approver_id)
    THEN MgrDone(mgr, xv, 0, "ApprovalError")
    ELSE MgrDone(mgr,
                 XVault_seal(xv, "authorization_decision",
                     [decision |-> "REJECTED", artifact_id |-> artifact_id,
                      artifact_hash |-> mgr.artifacts[artifact_id].content_hash,
                      approver_id |-> approver_id],
                     timestamp, uuid).xv,
                 1, "")

\* VerifiedApprovalManager.supersede
supersede(mgr, xv, artifact_id, new_artifact_id, approver_id, timestamp, uuid) ==
    IF artifact_id \notin DOMAIN mgr.artifacts
    THEN MgrDone(mgr, xv, 0, "StateTransitionError")
    ELSE IF new_artifact_id \notin DOMAIN mgr.artifacts
    THEN MgrDone(mgr, xv, 0, "StateTransitionError")
    ELSE IF mgr.artifacts[artifact_id].status # "verified"
    THEN MgrDone(mgr, xv, 0, "StateTransitionError")
    ELSE IF mgr.artifacts[new_artifact_id].status # "verified"
    THEN MgrDone(mgr, xv, 0, "StateTransitionError")
    ELSE IF ~can_verify(ManagerRegistry, approver_id)
    THEN MgrDone(mgr, xv, 0, "ApprovalError")
    ELSE LET sealed == XVault_seal(xv, "system_event",
                           [event |-> "SUPERSEDE", old_artifact_id |-> artifact_id,
                            new_artifact_id |-> new_artifact_id,
                            approver_id |-> approver_id],
                           timestamp, uuid)
             old_done ==
                 [mgr.artifacts EXCEPT
                    ![artifact_id].lineage.superseded_by = Val(new_artifact_id),
                    ![artifact_id].lineage.supersede_reason = Val("reason"),
                    ![artifact_id].status = "superseded",
                    ![artifact_id].updated_at = Val(timestamp)]
             new_done ==
                 [old_done EXCEPT
                    ![new_artifact_id].lineage.previous_versions = Append(@, artifact_id),
                    ![new_artifact_id].updated_at = Val(timestamp)]
         IN  MgrDone(save_artifact(save_artifact([mgr EXCEPT !.artifacts = new_done],
                                                 artifact_id),
                                   new_artifact_id),
                     sealed.xv, 1, "")

\* the manager of the running process
ProbedManager == IF probe.op = "none" THEN NewManager ELSE probe.mgr

\* the artifact object a caller hands to submit under an id: the object the
\* manager already holds, or else a draft from the factory, as made, with its
\* content changed afterwards, or with its hash removed
CallerArtifacts(artifact_id) ==
    IF artifact_id \in DOMAIN ProbedManager.artifacts
    THEN {ProbedManager.artifacts[artifact_id]}
    ELSE UNION {{create_draft(artifact_id, c),
                 [create_draft(artifact_id, c) EXCEPT !.content = [body |-> "changed"]],
                 [create_draft(artifact_id, c) EXCEPT !.content_hash = <<>>]}
                : c \in ArtifactContents}

ManagerCall(op, done) ==
    /\ probe.op \in {"none", "submit", "approve", "seal", "reject", "supersede",
                     "new_process"}
    /\ uuids + done.draws <= MaxUuids
    /\ probe' = [op |-> op, mgr |-> done.mgr, raised |-> done.raised]
    /\ xvault' = done.xv
    /\ uuids' = uuids + done.draws
    /\ UNCHANGED <<state, disk, peer, year, last, issued, acked, sent, clock, xret>>

ManagerSubmit(artifact) ==
    ManagerCall("submit",
                submit(ProbedManager, xvault, artifact, clock))

ManagerApprove(artifact_id, approver_id, role) ==
    ManagerCall("approve",
                approve(ProbedManager, xvault, artifact_id, approver_id, role,
                        clock, uuids + 1))

ManagerSeal(artifact_id) ==
    ManagerCall("seal",
                seal(ProbedManager, xvault, artifact_id, clock, uuids + 1))

ManagerReject(artifact_id, approver_id) ==
    ManagerCall("reject",
                reject(ProbedManager, xvault, artifact_id, approver_id, clock, uuids + 1))

ManagerSupersede(artifact_id, new_artifact_id, approver_id) ==
    ManagerCall("supersede",
                supersede(ProbedManager, xvault, artifact_id, new_artifact_id,
                          approver_id, clock, uuids + 1))

\* a new process: VerifiedApprovalManager() with a new XVault, the
\* artifacts read back by _load_artifacts
ManagerNewProcess ==
    ManagerCall("new_process",
                MgrDone([artifacts |-> ProbedManager.files,
                         files |-> ProbedManager.files], NewXVault, 0, ""))

NextApproval ==
    \/ \E artifact_id \in ManagedIds :
          \E artifact \in CallerArtifacts(artifact_id) : ManagerSubmit(artifact)
    \/ \E artifact_id \in ManagedIds, approver_id \in ManagerApprovers,
          role \in ManagerRoles : ManagerApprove(artifact_id, approver_id, role)
    \/ \E artifact_id \in ManagedIds : ManagerSeal(artifact_id)
    \/ \E artifact_id \in ManagedIds, approver_id \in ManagerApprovers :
          ManagerReject(artifact_id, approver_id)
    \/ \E artifact_id, new_artifact_id \in ManagedIds, approver_id \in ManagerApprovers :
          ManagerSupersede(artifact_id, new_artifact_id, approver_id)
    \/ ManagerNewProcess

SpecApproval == Init /\ [][NextApproval]_vars

(***************************************************************************)
(* SpecArtifacts: one Decision Engine with the artifact endpoints: the     *)
(* supporting references are registered, proposed, and listed by decisions *)
(* and by decisions that supersede them.                                   *)
(***************************************************************************)
\* the artifact ids the artifact endpoints are called with: the two the
\* CLASSIFY instruction lists
LinkableIds == {ScopeDoc, ClassDoc}

\* a CLASSIFY on its own, and the same superseding the first two decisions
ArtifactWriteInputs ==
    { Classify(Missing, Missing) }
    \cup { Classify(Missing, Val(Edi(FirstYear, n))) : n \in {1, 2} }

NextArtifacts ==
    \/ \E artifact_id \in LinkableIds : CreateArtifact(artifact_id)
    \/ \E artifact_id \in LinkableIds : ProposeArtifact(artifact_id)
    \/ \E input \in ArtifactWriteInputs : ExecuteEcl(input, Null)

SpecArtifacts == Init /\ [][NextArtifacts]_vars

(***************************************************************************)
(* SpecAuthorization: one AuthorizationModule.  Callers create requests   *)
(* and hand in approve and reject decisions under any user; the clock      *)
(* counts hours.  Of a User the fields the module reads are kept; of a     *)
(* request the target, the reason and the metadata are left out.           *)
(***************************************************************************)
\* AuthorizationModule.APPROVAL_REQUIREMENTS
APPROVAL_REQUIREMENTS ==
    [publish_knowledge |->
         [min_approvers |-> 1, required_roles |-> {"compliance_officer", "admin"}],
     update_rule_profile |->
         [min_approvers |-> 2,
          required_roles |-> {"compliance_officer", "data_protection_officer"}],
     approve_decision |->
         [min_approvers |-> 1, required_roles |-> {"compliance_officer", "admin"}],
     export_evidence |->
         [min_approvers |-> 1,
          required_roles |-> {"analyst", "compliance_officer", "admin"}],
     change_scope |->
         [min_approvers |-> 2, required_roles |-> {"admin", "super_admin"}],
     add_user |->
         [min_approvers |-> 1, required_roles |-> {"admin", "super_admin"}],
     modify_agent |->
         [min_approvers |-> 2, required_roles |-> {"super_admin"}]]

\* the organisation the module is constructed for
AuthOrg == "org_acme"

User(user_id, role, org_id, active) ==
    [user_id |-> user_id, role |-> role, org_id |-> org_id, active |-> active]

\* the users callers act as: an analyst, two officers with authorised
\* roles, an officer who is no longer active and one of another organisation
AuthUsers ==
    {User("user_123", "analyst", AuthOrg, TRUE),
     User("user_456", "compliance_officer", AuthOrg, TRUE),
     User("user_789", "data_protection_officer", AuthOrg, TRUE),
     User("user_321", "compliance_officer", AuthOrg, FALSE),
     User("user_654", "compliance_officer", "org_other", TRUE)}

\* the users requests are created for: every user but the second officer
AuthRequesters == {u \in AuthUsers : u.user_id # "user_789"}

\* the actions requests are created for: one approver, two approvers
AuthActions == {"publish_knowledge", "update_rule_profile"}

\* expires_hours: none, the default
ExpiresHours == {0, 48}

RejectReasons == {"", "not now"}

\* AuthorizationModule.__init__
NewAuthorization ==
    [org_id |-> AuthOrg, pending_requests |-> <<>>, completed_requests |-> <<>>,
     decision_log |-> <<>>]

\* what a method of the module gives: the module after it, the number of
\* uuid4 values drawn and the exception raised, "" when none
AuthDone(auth, draws, raised) == [auth |-> auth, draws |-> draws, raised |-> raised]

\* self.pending_requests[request.request_id] = request
PutRequest(requests, request) ==
    [id \in DOMAIN requests \cup {request.request_id} |->
        IF id = request.request_id THEN request ELSE requests[id]]

\* del self.pending_requests[request_id]
DelRequest(requests, request_id) ==
    [id \in DOMAIN requests \ {request_id} |-> requests[id]]

\* AuthorizationModule.create_request at time now; uuid is the uuid4 drawn
create_request(auth, action, requester, expires_hours, now, uuid) ==
    IF ~requester.active THEN AuthDone(auth, 0, "ValueError")
    ELSE IF requester.org_id # auth.org_id
    THEN AuthDone(auth, 0, "ValueError")
    ELSE AuthDone([auth EXCEPT !.pending_requests =
                       PutRequest(@, [request_id |-> uuid, action |-> action,
                                      requester |-> requester, created_at |-> now,
                                      expires_at |-> now + expires_hours,
                                      status |-> "pending", approvers |-> <<>>,
                                      approval_chain |-> <<>>])],
                  1, "")

\* AuthorizationModule._sign_decision: the digest of the sorted dictionary
sign_decision(org_id, request_id, approver_id, decision, timestamp) ==
    sha256(<<"approver_id", approver_id, "decision", decision, "org_id", org_id,
             "request_id", ToString(request_id), "timestamp", ToString(timestamp)>>)

\* the validation of the approver in _make_decision without the test that
\* the approver is not the requester
ApproverError_allowing_requester(auth, request, approver) ==
    IF ~approver.active THEN "Approver is not active"
    ELSE IF approver.org_id # auth.org_id THEN "Approver not in organization"
    ELSE IF approver.role \notin APPROVAL_REQUIREMENTS[request.action].required_roles
    THEN "Approver role not authorized"
    ELSE ""

\* the validation of the approver in _make_decision: the ValueError it
\* raises, "" when it raises none
ApproverError(auth, request, approver) ==
    IF ~approver.active THEN "Approver is not active"
    ELSE IF approver.org_id # auth.org_id THEN "Approver not in organization"
    ELSE IF approver.user_id = request.requester.user_id
    THEN "Cannot approve own request"
    ELSE IF APPROVAL_REQUIREMENTS[request.action].required_roles # {}
            /\ approver.role \notin APPROVAL_REQUIREMENTS[request.action].required_roles
    THEN "Approver role not authorized"
    ELSE ""

\* the entries of an approval chain that approve
ApprovedCount(approval_chain) ==
    Cardinality({i \in 1..Len(approval_chain) :
                    approval_chain[i].decision = "approved"})

\* AuthorizationModule._make_decision at time now; uuid is the uuid4 drawn
make_decision(auth, request_id, approver, decision, reason, now, uuid) ==
    IF request_id \notin DOMAIN auth.pending_requests
    THEN AuthDone(auth, 0, "ValueError")
    ELSE LET request == auth.pending_requests[request_id]
             error == ApproverError(auth, request, approver)
             requirements == APPROVAL_REQUIREMENTS[request.action]
             auth_decision ==
                 [decision_id |-> uuid, request_id |-> request_id,
                  approver |-> approver, decision |-> decision, reason |-> reason,
                  timestamp |-> now,
                  signature_hash |-> sign_decision(auth.org_id, request_id,
                                                   approver.user_id, decision, now)]
             decided ==
                 [request EXCEPT
                    !.approval_chain =
                        Append(@, [approver_id |-> approver.user_id,
                                   decision |-> decision, timestamp |-> now]),
                    !.approvers = Append(@, approver.user_id)]
             closes ==
                 \/ decision = "approved"
                    /\ ApprovedCount(decided.approval_chain) >= requirements.min_approvers
                 \/ decision = "rejected"
         IN  IF error # "" THEN AuthDone(auth, 0, "ValueError")
             ELSE IF now > request.expires_at
             THEN AuthDone([auth EXCEPT !.pending_requests[request_id].status = "expired"],
                           0, "ValueError")
             ELSE AuthDone(
                      [auth EXCEPT
                         !.pending_requests =
                             IF closes THEN DelRequest(@, request_id)
                             ELSE PutRequest(@, decided),
                         !.completed_requests =
                             IF closes THEN Append(@, [decided EXCEPT !.status = decision])
                             ELSE @,
                         !.decision_log = Append(@, auth_decision)],
                      1, "")

\* AuthorizationModule.approve
AuthorizationModule_approve(auth, request_id, approver, reason, now, uuid) ==
    make_decision(auth, request_id, approver, "approved", reason, now, uuid)

\* AuthorizationModule.reject
AuthorizationModule_reject(auth, request_id, approver, reason, now, uuid) ==
    IF reason = "" THEN AuthDone(auth, 0, "ValueError")
    ELSE make_decision(auth, request_id, approver, "rejected", reason, now, uuid)

\* AuthorizationModule.is_authorized: the first completed request with the id
is_authorized(auth, request_id) ==
    LET i == FirstIndex(auth.completed_requests,
                        LAMBDA req : req.request_id = request_id)
    IN  i # 0 /\ auth.completed_requests[i].status = "approved"

\* the module of the running process
ProbedAuthorization == IF probe.op = "none" THEN NewAuthorization ELSE probe.auth

\* the requests one run creates
MaxRequests == 1

\* the requests the module holds, pending and completed
RequestCount(auth) ==
    Cardinality(DOMAIN auth.pending_requests) + Len(auth.completed_requests)

\* the ids of the completed requests
CompletedIds(auth) ==
    {auth.completed_requests[i].request_id : i \in 1..Len(auth.completed_requests)}

\* the request ids callers decide on: those the module has issued and one
\* it has not
RequestIdInputs ==
    DOMAIN ProbedAuthorization.pending_requests
        \cup CompletedIds(ProbedAuthorization) \cup {0}

\* one call of the module
AuthorizationCall(op, done) ==
    /\ uuids + done.draws <= MaxUuids
    /\ RequestCount(done.auth) <= MaxRequests
    /\ probe' = [op |-> op, auth |-> done.auth, raised |-> done.raised]
    /\ uuids' = uuids + done.draws
    /\ UNCHANGED <<state, disk, peer, year, last, issued, acked, sent, clock, xret,
                   xvault>>

AuthCreateRequest(action, requester, expires_hours) ==
    AuthorizationCall("create_request",
                      create_request(ProbedAuthorization, action, requester,
                                     expires_hours, clock, uuids + 1))

AuthApprove(request_id, approver) ==
    AuthorizationCall("approve",
                      AuthorizationModule_approve(ProbedAuthorization, request_id,
                                                  approver, "", clock, uuids + 1))

AuthReject(request_id, approver, reason) ==
    AuthorizationCall("reject",
                      AuthorizationModule_reject(ProbedAuthorization, request_id,
                                                 approver, reason, clock, uuids + 1))

\* an hour passes
AuthHourPasses ==
    /\ clock + 1 \in Times
    /\ clock' = clock + 1
    /\ UNCHANGED <<state, disk, peer, year, last, issued, acked, sent, xret, xvault,
                   uuids, probe>>

NextAuthorization ==
    \/ \E action \in AuthActions, requester \in AuthRequesters,
          expires_hours \in ExpiresHours :
          AuthCreateRequest(action, requester, expires_hours)
    \/ \E request_id \in RequestIdInputs, approver \in AuthUsers :
          AuthApprove(request_id, approver)
    \/ \E request_id \in RequestIdInputs, approver \in AuthUsers,
          reason \in RejectReasons : AuthReject(request_id, approver, reason)
    \/ AuthHourPasses

SpecAuthorization == Init /\ [][NextAuthorization]_vars

(***************************************************************************)
(* Properties of the Decision Engine.                                      *)
(***************************************************************************)
DecisionsOfYear(db, y) ==
    {i \in 1..Len(db.decisions) : db.decisions[i].eve_decision_id.year = y}

DecisionsWithId(db, id) ==
    {i \in 1..Len(db.decisions) : db.decisions[i].eve_decision_id = id}

\* C1: the ids generate_next_edi has issued are pairwise different, the
\* sequence numbers issued within one year strictly increase in the order of
\* issue, and the first id issued in any year carries sequence number 1
C1_SequenceIdsIncrease ==
    /\ \A i, j \in 1..Len(issued) :
          i < j => /\ issued[i] # issued[j]
                   /\ issued[i].year = issued[j].year => issued[i].seq < issued[j].seq
    /\ \A j \in 1..Len(issued) :
          (\A i \in 1..(j - 1) : issued[i].year # issued[j].year) => issued[j].seq = 1

\* two ids were issued in the first year and then one in the next year
C1_Witness ==
    \E i, j, k \in 1..Len(issued) :
        /\ i < j /\ j < k
        /\ issued[i].year = FirstYear /\ issued[j].year = FirstYear
        /\ issued[k].year = FirstYear + 1

\* C2: in every state the counter of each year equals the number of decision
\* records created in that year
C2_CounterEqualsDecisions ==
    \A y \in Years : state.edi_sequence[y] = Cardinality(DecisionsOfYear(state, y))

\* C4: every decision id that execute has returned with success names exactly
\* one decision record and has an evidence seal, and verify reports
\* decision_exists, vault_exists and overall_valid for it
C4_AckedDecisionsStay ==
    \A a \in acked :
        /\ Cardinality(DecisionsWithId(state, a[2])) = 1
        /\ verify(state, a[2]).checks.decision_exists
        /\ verify(state, a[2]).checks.vault_exists
        /\ verify(state, a[2]).checks.overall_valid

\* a decision returned by execute was later superseded and further decisions
\* were recorded after it
C4_Witness ==
    \E a \in acked :
        /\ HasDecision(state, a[2])
        /\ get_decision(state, a[2]).status = "SUPERSEDED"
        /\ DecisionIndex(state, a[2]) + 2 <= Len(state.decisions)

\* C6: in the persisted state the counter of a year is never ahead of the
\* decisions of that year and every decision has its evidence entry
C6_CounterAndEvidenceAtomic ==
    /\ \A y \in Years : disk.edi_sequence[y] <= Cardinality(DecisionsOfYear(disk, y))
    /\ \A i \in 1..Len(disk.decisions) :
          HasVaultEntry(disk, disk.decisions[i].eve_decision_id)

\* C7: a SUPERSEDED decision stays SUPERSEDED with the same superseded_by in
\* every step, and an EXECUTED decision stays EXECUTED or becomes SUPERSEDED
C7_SupersedeOneWay ==
    [][\A i \in 1..Len(state.decisions) :
          /\ i <= Len(state'.decisions)
          /\ state'.decisions[i].status \in {"EXECUTED", "SUPERSEDED"}
          /\ state.decisions[i].status = "SUPERSEDED" =>
                /\ state'.decisions[i].status = "SUPERSEDED"
                /\ state'.decisions[i].superseded_by = state.decisions[i].superseded_by]_vars

\* a supersede of an already SUPERSEDED decision has just been refused
C7_Witness ==
    /\ last.op = "execute" /\ last.error = "Cannot supersede"
    /\ \E i \in 1..Len(state.decisions) : state.decisions[i].status = "SUPERSEDED"

\* C8: right after a successful supersede of A by B, A is SUPERSEDED with
\* superseded_by = B and B is EXECUTED with supersedes = A; and in every state
\* a decision is SUPERSEDED exactly when its superseded_by names a decision
\* whose supersedes names it back
C8_SupersedeLinks ==
    /\ (last.op = "execute" /\ last.outcome = "ok" /\ last.superseded # NoId) =>
          /\ HasDecision(state, last.superseded)
          /\ HasDecision(state, last.eve_decision_id)
          /\ get_decision(state, last.superseded).status = "SUPERSEDED"
          /\ get_decision(state, last.superseded).superseded_by = last.eve_decision_id
          /\ get_decision(state, last.eve_decision_id).supersedes = last.superseded
          /\ get_decision(state, last.eve_decision_id).status = "EXECUTED"
    /\ \A i \in 1..Len(state.decisions) :
          LET d == state.decisions[i]
          IN  d.status = "SUPERSEDED" <=>
                \E j \in 1..Len(state.decisions) :
                    /\ state.decisions[j].eve_decision_id = d.superseded_by
                    /\ state.decisions[j].supersedes = d.eve_decision_id

\* a supersede has just succeeded
C8_Witness ==
    /\ last.op = "execute" /\ last.outcome = "ok" /\ last.superseded # NoId
    /\ HasDecision(state, last.superseded)

\* the instruction is a supersede whose target is missing or not EXECUTED
SupersedeOfBadTarget(input) ==
    /\ IsVal(input.supersedes)
    /\ \/ ~HasDecision(state, input.supersedes[2])
       \/ get_decision(state, input.supersedes[2]).status # "EXECUTED"

AnyProjectId == {Null} \cup ApiProjectIds
SupersedeInputs == {input \in Inputs : IsVal(input.supersedes)}

\* C9: an execute of a supersede instruction whose target is missing or not
\* EXECUTED does not answer success and leaves the state dictionary, the file
\* and the issued ids as they were: a step that answers success or changes
\* one of them is no such execute
C9_BadSupersedeChangesNothing ==
    [][\/ /\ last'.outcome # "ok"
          /\ state' = state /\ disk' = disk /\ issued' = issued
       \/ ~\E input \in SupersedeInputs, p \in AnyProjectId :
              SupersedeOfBadTarget(input) /\ ExecuteEcl(input, p)]_vars

\* a supersede was refused for an existing target that is SUPERSEDED
C9_Witness ==
    /\ last.op = "execute" /\ last.outcome = "error" /\ last.error = "Cannot supersede"
    /\ Len(state.decisions) >= 2

InvalidProject(input, p) ==
    /\ Truthy(EffectiveProject(input, p))
    /\ ~PROJECT_ID_REGEX(EffectiveProject(input, p)[2])

\* C10: an execute whose partition id is non-empty and matches no grammar
\* leaves the state dictionary (decisions, evidence entries, artifact links,
\* sequence counter) and the file as they were: a step that changes one of
\* them is no such execute
C10_InvalidProjectChangesNothing ==
    [][\/ state' = state /\ disk' = disk
       \/ ~\E input \in Inputs, p \in AnyProjectId :
              InvalidProject(input, p) /\ ExecuteEcl(input, p)]_vars

(***************************************************************************)
(* Properties of two Decision Engines on one file.                         *)
(***************************************************************************)
\* C5: two writers that were each answered with success never hold the same
\* decision id, and the file holds the decision record and the evidence
\* entry of every id a writer was answered with
C5_WritersNeverCollide ==
    /\ \A a, b \in acked : a[1] # b[1] => a[2] # b[2]
    /\ \A a \in acked : HasDecision(disk, a[2]) /\ HasVaultEntry(disk, a[2])

(***************************************************************************)
(* Properties of the XVault.                                               *)
(***************************************************************************)
ChainLinked(chain) ==
    \A i \in 1..Len(chain) :
        chain[i].previous_hash = IF i = 1 THEN Genesis ELSE chain[i - 1].content_hash

\* C3: in every state the first evidence record's previous_hash is the
\* genesis marker and every later record's previous_hash is the content_hash
\* of the record before it; and every step leaves each record of the
\* evidence chain at its place, unchanged
C3_ChainIsWriteOnce ==
    /\ [](ChainLinked(xvault.evidence_chain))
    /\ [][\A i \in 1..Len(xvault.evidence_chain) :
             /\ i <= Len(xvault'.evidence_chain)
             /\ xvault'.evidence_chain[i] = xvault.evidence_chain[i]]_vars

\* three records were sealed, one of them by an export, a snapshot was taken
\* and verify_chain has run
C3_Witness ==
    /\ Len(xvault.evidence_chain) >= 3
    /\ \E i \in 1..Len(xvault.evidence_chain) :
          xvault.evidence_chain[i].evidence_type = "export_event"
    /\ \E i \in 1..Len(xvault.evidence_chain) :
          xvault.evidence_chain[i].evidence_type # "export_event"
    /\ xvault.snapshots # <<>>
    /\ xret.op = "verify_chain"

(***************************************************************************)
(* Properties of validation and of the partition id.                       *)
(***************************************************************************)
\* what the validator answers for the command execute builds from the input
ValidationOf(input, p) ==
    ECLValidator_validate(WithProject(ECLParser_parse(input).command, p))

\* the decision instructions the validator answers with errors
FailsValidation(input, p) ==
    /\ ECLParser_parse(input).success
    /\ input.verb \in VALID_DECISION_COMMANDS
    /\ ~ValidationOf(input, p).raised
    /\ ~ValidationOf(input, p).valid

InvalidInputs == {ip \in Inputs \X AnyProjectId : FailsValidation(ip[1], ip[2])}

\* C11: in every state, an execute of a decision instruction that fails rule
\* validation answers with the validator's errors and no decision id, draws
\* no id, and leaves the state dictionary and the file as they are
C11_InvalidInstructionChangesNothing ==
    \A ip \in InvalidInputs :
        \E r \in {execute(state, ip[1], ip[2], year)} :
            /\ r.resp.outcome = "error"
            /\ r.resp.errors = ValidationOf(ip[1], ip[2]).errors
            /\ r.resp.errors # <<>>
            /\ r.resp.eve_decision_id = NoId
            /\ r.edi = NoId
            /\ r.db = state /\ ~r.saved

\* an ACCEPT_RISK without risk link was refused on a ledger that holds
\* decisions
C11_Witness ==
    /\ last.op = "execute" /\ last.outcome = "error"
    /\ \E i \in 1..Len(last.errors) : last.errors[i] = <<"requires", "risk_link">>
    /\ Len(state.decisions) >= 1

\* the partition an instruction's partition id normalizes to
PartitionOf(e) == normalize_project_id(e.partition).project_id

\* the partition id an instruction gives: an empty one counts as none given
GivenPartition(e) == IF Truthy(e.partition) THEN e.partition ELSE Null

ContextHashOf(e) == get_decision(state, e.eve_decision_id).context_hash

\* C12 as claimed: two accepted instructions with the same payload and
\* different partition ids created decisions with different context hashes
\* and different ids
C12_PartitionIdsIsolate ==
    \A i, j \in 1..Len(sent) :
        (i < j /\ sent[i].payload = sent[j].payload
               /\ GivenPartition(sent[i]) # GivenPartition(sent[j])) =>
            /\ sent[i].eve_decision_id # sent[j].eve_decision_id
            /\ ContextHashOf(sent[i]) # ContextHashOf(sent[j])

\* C12 as amended: any two accepted instructions created decisions with
\* different ids, and two with the same payload whose partition ids normalize
\* to different partitions created decisions with different context hashes
C12_PartitionsIsolate ==
    \A i, j \in 1..Len(sent) :
        i < j =>
            /\ sent[i].eve_decision_id # sent[j].eve_decision_id
            /\ (sent[i].payload = sent[j].payload /\ PartitionOf(sent[i]) # PartitionOf(sent[j]))
                  => ContextHashOf(sent[i]) # ContextHashOf(sent[j])

\* the same payload was accepted under two explicit partition ids and under
\* none
C12_Witness ==
    \E i, j, k \in 1..Len(sent) :
        /\ sent[i].payload = sent[j].payload /\ sent[j].payload = sent[k].payload
        /\ sent[i].partition = Val(AlphaProject)
        /\ sent[j].partition = Val(BetaProject)
        /\ sent[k].partition = Null

\* the partition-id grammar: 2 to 64 characters, lowercase letters, digits
\* and hyphens, the first and the last no hyphen
MatchesGrammar(t) ==
    /\ Len(t) >= 2 /\ Len(t) <= 64
    /\ \A i \in 1..Len(t) : t[i] \in AlNum \cup {"-"}
    /\ t[1] # "-" /\ t[Len(t)] # "-"

\* C13: normalize_project_id answers ("legacy", "v1") for an absent or empty
\* partition id and (the id itself, "v2") for every id that matches the
\* grammar, "legacy" included
C13_NormalizeDerivesScheme ==
    probe.op = "normalize_project_id" =>
        /\ ~Truthy(probe.input) =>
              probe.result = [ok |-> TRUE, project_id |-> LegacyProject, hash_version |-> "v1"]
        /\ (Truthy(probe.input) /\ MatchesGrammar(probe.input[2])) =>
              probe.result = [ok |-> TRUE, project_id |-> probe.input[2], hash_version |-> "v2"]

\* normalize_project_id was called with the explicit id "legacy"
C13_Witness ==
    /\ probe.op = "normalize_project_id"
    /\ probe.input = Val(LegacyProject)
    /\ probe.result.hash_version = "v2"

\* the last hash of the Decision Engine's evidence log
LastVaultHash(vault) ==
    IF vault = <<>> THEN Genesis ELSE vault[Len(vault)].payload_hash

\* C14: a step in which execute answers success and has drawn an id appends
\* one decision record with that id and status EXECUTED and one evidence
\* entry for it, and the entry's previous_hash is the last hash of the
\* evidence log before the step, the genesis marker if the log was empty
C14_ExecuteAppendsChainedEvidence ==
    [][(last'.op = "execute" /\ last'.outcome = "ok" /\ issued' # issued) =>
          /\ Len(state'.decisions) = Len(state.decisions) + 1
          /\ state'.decisions[Len(state'.decisions)].eve_decision_id = last'.eve_decision_id
          /\ state'.decisions[Len(state'.decisions)].status = "EXECUTED"
          /\ Len(state'.vault) = Len(state.vault) + 1
          /\ state'.vault[Len(state'.vault)].eve_decision_id = last'.eve_decision_id
          /\ "previous_hash" \in DOMAIN state'.vault[Len(state'.vault)]
          /\ state'.vault[Len(state'.vault)].previous_hash = LastVaultHash(state.vault)]_vars

\* C15: for a tree of n >= 1 leaves and a leaf index i < n, the proof
\* get_proof(i) returns verifies against the root for the hash of leaf i
\* and for no other claimed leaf hash
C15_ProofVerifiesExactlyItsLeaf ==
    (probe.op = "verify_proof" /\ probe.leaf_index < Len(probe.mt.leaves)) =>
        (probe.result <=> probe.leaf_hash = probe.mt.leaves[probe.leaf_index + 1])

\* C16: in a vault whose records nobody has modified, whatever seals,
\* snapshots and exports have happened, verify_chain returns success with no
\* errors
C16_UntouchedChainVerifies ==
    verify_chain(xvault) = [ok |-> TRUE, errors |-> <<>>]

C16_Witness ==
    /\ xret.op = "verify_chain"
    /\ xret.result.ok
    /\ Len(xvault.evidence_chain) >= 3
    /\ Len(xvault.snapshots) >= 1
    /\ \E i \in 1..Len(xvault.evidence_chain) :
          xvault.evidence_chain[i].evidence_type = "export_event"
    /\ \E i \in 2..Len(xvault.evidence_chain) :
          xvault.evidence_chain[i].content_hash # xvault.evidence_chain[i - 1].content_hash

\* the indices of a set, in increasing order
RECURSIVE Ascending(_)
Ascending(S) ==
    IF S = {} THEN <<>>
    ELSE LET m == CHOOSE x \in S : \A y \in S : x <= y
         IN  <<m>> \o Ascending(S \ {m})

\* C17: when nothing but the content of stored records has been changed
\* after sealing, verify_evidence is false for each changed record and
\* verify_chain fails with exactly one error for each changed record, a
\* content hash mismatch naming it, and no error for any other record
C17_ContentTamperingReported ==
    (Tampering.content # {} /\ Tampering.rehash = {} /\ Tampering.previous = {}) =>
        /\ \A i \in Tampering.content :
              ~verify_evidence(xvault, xvault.evidence_chain[i])
        /\ ~verify_chain(xvault).ok
        /\ verify_chain(xvault).errors =
              [k \in 1..Cardinality(Tampering.content) |->
                  <<xvault.evidence_chain[Ascending(Tampering.content)[k]].evidence_id,
                    "content hash mismatch">>]

C17_Witness ==
    /\ Tampering.content = {1, 3}
    /\ Tampering.rehash = {} /\ Tampering.previous = {}
    /\ xret.op = "verify_chain"
    /\ xret.result = verify_chain(xvault)
    /\ Len(xret.result.errors) = 2

\* C18: every record edited after sealing, in its content, in its content
\* and content_hash together or in its previous_hash, at whatever position,
\* makes verify_chain fail or verify_evidence of that record false
C18_AnyTamperingDetected ==
    \A i \in Tampered :
        \/ ~verify_chain(xvault).ok
        \/ ~verify_evidence(xvault, xvault.evidence_chain[i])

\* C19: in a vault whose records nobody has modified, verify_evidence is
\* true for every record seal has returned, however many seals, snapshots
\* and exports have followed it
C19_SealedEvidenceKeepsVerifying ==
    \A i \in 1..Len(xvault.evidence_chain) :
        verify_evidence(xvault, xvault.evidence_chain[i])

\* the Merkle proof a record carries, as pairs
StoredProof(evidence) ==
    [k \in 1..Len(evidence.merkle_path) |-> SplitPathItem(evidence.merkle_path[k])]

\* C20: for every record of a package export_regulator_package has
\* returned, the content hash matches the content, previous_hash is the
\* content hash of the record included before it, and the Merkle proof the
\* record carries verifies against the package's merkle_root
C20_PackageVerifiesOffline ==
    xret.op = "export" =>
        \A i \in 1..Len(xret.package.evidence_objects) :
            \E e \in {xret.package.evidence_objects[i]} :
                /\ EvidenceObject_verify(e)
                /\ i > 1 => e.previous_hash =
                               xret.package.evidence_objects[i - 1].content_hash
                /\ verify_proof(e.content_hash, StoredProof(e), xret.package.merkle_root)

\* what an instruction carries: a list that is absent counts as empty
Carried(o) == IF IsVal(o) THEN o[2] ELSE <<>>

\* the rules of its decision type an instruction violates
ViolatedRules(command) ==
    LET rules == VALIDATION_RULES[command.verb]
        params == command.params
    IN  (IF TruthyStr(params.system_id) THEN {} ELSE {<<"system_id">>})
        \cup {<<"artifact", r>> : r \in
                {rules.required_artifacts[i] : i \in 1..Len(rules.required_artifacts)} \
                {req \in {rules.required_artifacts[i] : i \in 1..Len(rules.required_artifacts)} :
                    CountMatching(Carried(params.artifacts), req[1]) >= req[2]}}
        \cup {<<"role", rules.required_roles[i]>> : i \in
                {j \in 1..Len(rules.required_roles) :
                    \A k \in 1..Len(Carried(params.signoff)) :
                        Carried(params.signoff)[k].role # rules.required_roles[j]}}
        \cup (IF rules.requires_risk_links = "True" /\ Carried(params.risk_links) = <<>>
              THEN {<<"risk_link">>} ELSE {})

\* C21: validate returns; valid is true exactly when the instruction
\* violates no rule of its decision type; errors has one entry for every
\* violated rule; warnings are given for an absent use case and for absent
\* risk links of a conditional type and do not make the instruction invalid
C21_ValidateAppliesEveryRule ==
    probe.op = "validate" =>
        /\ ~probe.result.raised
        /\ probe.result.valid <=> ViolatedRules(probe.command) = {}
        /\ Len(probe.result.errors) = Cardinality(ViolatedRules(probe.command))
        /\ (ViolatedRules(probe.command) = {} /\ probe.result.warnings # <<>>) =>
               probe.result.valid

\* the same for the commands validate returns for
C21_ReturnedValidation ==
    (probe.op = "validate" /\ ~probe.result.raised) =>
        /\ probe.result.valid <=> ViolatedRules(probe.command) = {}
        /\ Len(probe.result.errors) = Cardinality(ViolatedRules(probe.command))

\* C22: a step of validate_only, of the verify or the replay endpoint
\* leaves the state dictionary and the file as they were, and so does every
\* ECL read (QUERY, REPLAY, VERIFY) sent to execute: decisions, statuses and
\* pointers, evidence entries, artifact links and the sequence counter
C22_ReadsChangeNothing ==
    [][/\ last'.op \in {"validate", "verify", "replay"} =>
             (state' = state /\ disk' = disk /\ issued' = issued)
       /\ \A input \in ReadInputs, p \in AnyProjectId :
             \E r \in {execute(state, input, p, year)} :
                 r.db = state /\ ~r.saved /\ r.edi = NoId]_vars

C22_Witness ==
    /\ last.op = "replay"
    /\ last.outcome = "ok"
    /\ Len(state.decisions) >= 2
    /\ \E i \in 1..Len(state.decisions) : state.decisions[i].status = "SUPERSEDED"

\* a decision record without the two fields a supersede writes
Frozen(d) == [d EXCEPT !.status = "", !.superseded_by = NoId]

\* C23: in every step every decision record stays in its place with its
\* id, partition id, hash-scheme tag, decision type, signoffs, scope,
\* supporting references, risk links, content hash and supersedes pointer;
\* if the record changes at all it goes from EXECUTED with no successor to
\* SUPERSEDED with a successor, so this happens at most once
C23_DecisionsImmutable ==
    [][\A i \in 1..Len(state.decisions) :
          /\ i <= Len(state'.decisions)
          /\ Frozen(state'.decisions[i]) = Frozen(state.decisions[i])
          /\ state'.decisions[i] # state.decisions[i] =>
                /\ state.decisions[i].status = "EXECUTED"
                /\ state.decisions[i].superseded_by = NoId
                /\ state'.decisions[i].status = "SUPERSEDED"
                /\ state'.decisions[i].superseded_by # NoId]_vars

C23_Witness ==
    /\ Len(state.decisions) >= 3
    /\ state.decisions[1].status = "SUPERSEDED"
    /\ state.decisions[2].status = "SUPERSEDED"
    /\ state.decisions[3].status = "EXECUTED"
    /\ state.decisions[2].supersedes = state.decisions[1].eve_decision_id

\* C24: every decision record has a partition id that is not empty and a
\* hash-scheme tag that is v1 or v2, and the tag is v1 only if the partition
\* is the fallback partition 'legacy'
C24_PartitionAndTagWellFormed ==
    \A i \in 1..Len(state.decisions) :
        /\ state.decisions[i].project_id # <<>>
        /\ state.decisions[i].hash_version \in {"v1", "v2"}
        /\ state.decisions[i].hash_version = "v1" =>
              state.decisions[i].project_id = LegacyProject

C24_Witness ==
    /\ \E i \in 1..Len(state.decisions) :
          /\ state.decisions[i].project_id = LegacyProject
          /\ state.decisions[i].hash_version = "v1"
    /\ \E i \in 1..Len(state.decisions) :
          /\ state.decisions[i].project_id = LegacyProject
          /\ state.decisions[i].hash_version = "v2"
    /\ \E i \in 1..Len(state.decisions) :
          /\ state.decisions[i].project_id = BetaProject
          /\ state.decisions[i].hash_version = "v2"

\* a response that reports what a search of the decisions found
IsLookupResult(resp) ==
    resp.outcome = "ok" \/ resp.error = "Decision not found"

\* C25: a decision id that is not EVE-<4 digits>-<6 digits> is rejected
\* before the decisions are searched, whether it comes with EVE REPLAY, with
\* EVE VERIFY or in a SUPERSEDES line, and is refused by the sealing: the
\* response is an error and not the result of a lookup
C25_MalformedIdRejectedBeforeLookup ==
    [][/\ \A input \in MalformedIdInputs :
             ExecuteEcl(input, Null) =>
                 (last'.outcome = "error" /\ ~IsLookupResult(last'))
       /\ seal_to_vault(state, MalformedId, "DECISION", <<>>).raised]_vars

\* the same fields written in the text form
AsText(input) == [input EXCEPT !.form = "text"]

\* a parsed instruction as its readers see it: params.get(key) of every key
Normalized(command) ==
    [command EXCEPT !.params = [k \in ParamKeys |-> Get(command.params[k])]]

\* C26: an instruction in the JSON form parses to the same normalized
\* instruction as the text form with the same fields, optional fields left
\* out included, validates to the same result with the same errors and
\* warnings, and a step executing it answers what executing the text form
\* in the same state answers
C26_TextAndJsonAgree ==
    [][\A input \in {j \in Inputs : j.form = "json"} :
          /\ Normalized(ECLParser_parse(input).command) =
                Normalized(ECLParser_parse(AsText(input)).command)
          /\ ECLValidator_validate(ECLParser_parse(input).command) =
                ECLValidator_validate(ECLParser_parse(AsText(input)).command)
          /\ ExecuteEcl(input, Null) =>
                last' = [op |-> "execute"] @@ execute(state, AsText(input), Null, year).resp]_vars

\* the decision a supersede instruction names
TargetOf(input) == input.supersedes[2]

\* the target of a supersede instruction can be superseded
TargetExecuted(input) ==
    /\ HasDecision(state, TargetOf(input))
    /\ get_decision(state, TargetOf(input)).status = "EXECUTED"

\* C27 as stated: executing a supersede instruction that fails rule
\* validation, its target being EXECUTED, creates the successor decision and
\* sets the target to SUPERSEDED
C27_SupersedeSkipsValidation ==
    \A input \in SupersedeInputs :
        (FailsValidation(input, Null) /\ TargetExecuted(input)) =>
            \E r \in {execute(state, input, Null, year)} :
                /\ Len(r.db.decisions) = Len(state.decisions) + 1
                /\ get_decision(r.db, TargetOf(input)).status = "SUPERSEDED"

\* C27 amended: a supersede instruction is validated like every decision
\* instruction before it is routed: if it fails rule validation execute
\* answers the validator's errors, creates no decision and leaves the target
\* as it is; if it passes, execute does what the supersede handler does
C27_SupersedeIsValidatedFirst ==
    \A input \in SupersedeInputs :
        \E r \in {execute(state, input, Null, year)} :
            /\ FailsValidation(input, Null) =>
                  /\ r.resp.outcome = "error"
                  /\ r.resp.errors = ValidationOf(input, Null).errors
                  /\ r.db = state /\ ~r.saved /\ r.edi = NoId
            /\ (ECLParser_parse(input).success /\ ValidationOf(input, Null).valid) =>
                  r = execute_supersede(state, ECLParser_parse(input).command, year)

C27_Witness ==
    /\ last.op = "execute"
    /\ last.outcome = "error"
    /\ last.errors = <<<<"requires signoff", "Compliance Owner">>>>
    /\ HasDecision(state, Edi(FirstYear, 1))
    /\ get_decision(state, Edi(FirstYear, 1)).status = "EXECUTED"
    /\ Len(state.decisions) = 1

(***************************************************************************)
(* Properties of the VerifiedApprovalManager.                              *)
(***************************************************************************)
StatusOf(mgr, artifact_id) ==
    IF artifact_id \in DOMAIN mgr.artifacts THEN mgr.artifacts[artifact_id].status
    ELSE "absent"

\* the status a method requires of the artifact it is called on, and the
\* status it gives
RequiredStatus == [approve |-> "submitted", seal |-> "approved", supersede |-> "verified"]
GivenStatus == [approve |-> "approved", seal |-> "verified", supersede |-> "superseded"]

\* C28: no call of the manager moves a stored artifact otherwise than one step
\* forward along draft, submitted, approved, verified, superseded; approve
\* succeeds only on a submitted artifact, seal only on an approved one,
\* supersede only on a verified one; and a call of these on a stored artifact
\* that does not succeed leaves its status as it was, raising
\* StateTransitionError when the status was not the required one
C28_LifecycleForwardOnly ==
    [][ /\ \A id \in DOMAIN ProbedManager.artifacts :
              \/ StatusOf(ProbedManager', id) = StatusOf(ProbedManager, id)
              \/ StatusOf(ProbedManager', id)
                     \in VALID_TRANSITIONS[StatusOf(ProbedManager, id)]
        /\ \A id \in ManagedIds :
              (\/ \E a \in ManagerApprovers, r \in ManagerRoles : ManagerApprove(id, a, r)
               \/ ManagerSeal(id)
               \/ \E n \in ManagedIds, a \in ManagerApprovers : ManagerSupersede(id, n, a))
              => LET was == StatusOf(ProbedManager, id)
                     now == StatusOf(ProbedManager', id)
                 IN  /\ probe'.raised = "" =>
                           /\ was = RequiredStatus[probe'.op]
                           /\ now = GivenStatus[probe'.op]
                     /\ (probe'.raised # "" /\ was # "absent") =>
                           /\ now = was
                           /\ was # RequiredStatus[probe'.op]
                                  => probe'.raised = "StateTransitionError"
      ]_vars

\* C29: after every call of the manager that returned, every artifact the
\* manager holds, in its dictionary and in its files, satisfies the status
\* invariants: validate_invariants reports nothing
C29_StoredArtifactsSatisfyInvariants ==
    (probe.op \in {"submit", "approve", "seal", "reject", "supersede"}
        /\ probe.raised = "") =>
        /\ \A id \in DOMAIN probe.mgr.artifacts :
              validate_invariants(probe.mgr.artifacts[id]) = <<>>
        /\ \A id \in DOMAIN probe.mgr.files :
              validate_invariants(probe.mgr.files[id]) = <<>>

(***************************************************************************)
(* Properties of the ApproverRegistry.                                     *)
(***************************************************************************)
\* C30: in every reachable state of the ApproverRegistry, every approver with
\* can_verify_trinity = true was granted that right by the founder: its
\* granted_by is the founder id or BOOTSTRAP
C30_VerifiersGrantedByFounder ==
    \A id \in DOMAIN ProbedRegistry.approvers :
        ProbedRegistry.approvers[id].can_verify_trinity
            => ProbedRegistry.approvers[id].granted_by \in {FOUNDER_ID, "BOOTSTRAP"}

(***************************************************************************)
(* Properties of the supporting references.                                *)
(***************************************************************************)
\* the artifacts of the state that a list of ids names
RegisteredAmong(db, artifact_ids) ==
    {i \in 1..Len(db.artifacts) :
        \E k \in 1..Len(artifact_ids) : db.artifacts[i].artifact_id = artifact_ids[k]}

\* C32: whenever execute creates a decision, by the plain path or by the
\* supersede path, every registered artifact the decision lists in
\* source_artifacts is afterwards Executed and linked to the decision's id
C32_CreatedDecisionLinksItsArtifacts ==
    \A input \in ArtifactWriteInputs :
        \E r \in {execute(state, input, Null, year)} :
            (r.resp.outcome = "ok" /\ r.edi # NoId) =>
                \A i \in RegisteredAmong(state,
                             get_decision(r.db, r.edi).source_artifacts) :
                    /\ r.db.artifacts[i].status = "Executed"
                    /\ r.db.artifacts[i].eve_decision_id = r.edi

\* C38: an artifact that is Executed and linked to a decision keeps its
\* status and the decision id it is linked to in every later step
C38_LinkedArtifactStaysLinked ==
    [][ \A i \in 1..Len(state.artifacts) :
            state.artifacts[i].status = "Executed" =>
                /\ i <= Len(state'.artifacts)
                /\ state'.artifacts[i].status = "Executed"
                /\ state'.artifacts[i].eve_decision_id = state.artifacts[i].eve_decision_id
      ]_vars

(***************************************************************************)
(* Properties of the export, the snapshots and the Merkle tree of XVault.  *)
(***************************************************************************)
\* C33: export_regulator_package appends exactly one evidence record, of
\* type export_event and naming the package, to the evidence chain as it was;
\* the package holds the records of the period as they were before that, so
\* it does not hold its own export record
C33_ExportAppendsOneRecord ==
    \A period \in Periods :
        \E r \in {export_regulator_package(xvault, period[1], period[2], clock, uuids + 1)} :
            LET n == Len(xvault.evidence_chain)
                exported == r.xv.evidence_chain[n + 1]
            IN  /\ Len(r.xv.evidence_chain) = n + 1
                /\ SubSeq(r.xv.evidence_chain, 1, n) = xvault.evidence_chain
                /\ exported.evidence_type = "export_event"
                /\ exported.content.package_id = ToString(r.package.package_id)
                /\ r.package.evidence_objects
                       = InPeriod(xvault.evidence_chain, period[1], period[2])
                /\ \A k \in 1..Len(r.package.evidence_objects) :
                       r.package.evidence_objects[k] # exported

\* an export has returned a package that holds evidence of its period, and
\* the export's own record was sealed within that period
C33_Witness ==
    /\ xret.op = "export"
    /\ xret.package.evidence_objects # <<>>
    /\ xvault.evidence_chain[Len(xvault.evidence_chain)].evidence_type = "export_event"
    /\ xret.package.period_start <= xvault.evidence_chain[Len(xvault.evidence_chain)].timestamp
    /\ xvault.evidence_chain[Len(xvault.evidence_chain)].timestamp <= xret.package.period_end

\* the content hashes of an evidence chain, in its order
HashesOf(chain) == [i \in 1..Len(chain) |-> chain[i].content_hash]

\* the root by the rule: pair adjacent nodes, pair the last node of an odd
\* level with itself, hash each pair, repeat until one node remains
RECURSIVE ReferenceRoot(_)
ReferenceRoot(nodes) ==
    IF Len(nodes) = 1 THEN nodes[1]
    ELSE LET padded == IF Len(nodes) % 2 = 1
                       THEN Append(nodes, nodes[Len(nodes)]) ELSE nodes
         IN  ReferenceRoot([k \in 1..(Len(padded) \div 2) |->
                               sha256(padded[2 * k - 1] \o padded[2 * k])])

C35_TreeMirrorsChain ==
    /\ xvault.merkle_tree.leaves = HashesOf(xvault.evidence_chain)
    /\ root(xvault.merkle_tree) =
           IF xvault.evidence_chain = <<>> THEN Null
           ELSE ReferenceRoot(HashesOf(xvault.evidence_chain))
    /\ xvault.last_hash =
           IF xvault.evidence_chain = <<>> THEN Genesis
           ELSE xvault.evidence_chain[Len(xvault.evidence_chain)].content_hash

\* three records are sealed, so that a level of the tree has odd length
C35_Witness ==
    /\ Len(xvault.evidence_chain) = 3
    /\ Len(xvault.merkle_tree.tree) = 3

\* the decision an accepted instruction created
DecisionOf(e) == get_decision(state, e.eve_decision_id)

\* C36 as claimed: any two decision records with the same content hash have
\* the same partition id and the same hash-scheme tag
C36_HashFixesPartitionAndScheme ==
    \A i, j \in 1..Len(state.decisions) :
        state.decisions[i].context_hash = state.decisions[j].context_hash =>
            /\ state.decisions[i].project_id = state.decisions[j].project_id
            /\ state.decisions[i].hash_version = state.decisions[j].hash_version

\* C36 as amended: any two decision records with the same content hash have
\* the same partition id; the hash-scheme tag is not hashed, so the same
\* payload accepted once with no partition id and once under the explicit id
\* "legacy" gives two records of the partition "legacy" with the same content
\* hash, tagged v1 and v2
C36_HashFixesPartitionOnly ==
    /\ \A i, j \in 1..Len(state.decisions) :
          state.decisions[i].context_hash = state.decisions[j].context_hash =>
              state.decisions[i].project_id = state.decisions[j].project_id
    /\ \A i, j \in 1..Len(sent) :
          (/\ sent[i].payload = sent[j].payload
           /\ ~Truthy(sent[i].partition)
           /\ sent[j].partition = Val(LegacyProject)) =>
              /\ DecisionOf(sent[i]).project_id = LegacyProject
              /\ DecisionOf(sent[j]).project_id = LegacyProject
              /\ DecisionOf(sent[i]).hash_version = "v1"
              /\ DecisionOf(sent[j]).hash_version = "v2"
              /\ DecisionOf(sent[i]).context_hash = DecisionOf(sent[j]).context_hash

\* the same payload was accepted with no partition id, under the explicit id
\* "legacy" and under another partition
C36_Witness ==
    \E i, j, k \in 1..Len(sent) :
        /\ sent[i].payload = sent[j].payload /\ sent[j].payload = sent[k].payload
        /\ sent[i].partition = Null
        /\ sent[j].partition = Val(LegacyProject)
        /\ PartitionOf(sent[k]) # LegacyProject

\* the decisions that name the decision with this id in their supersedes field
SuccessorsOf(db, id) ==
    {j \in 1..Len(db.decisions) : db.decisions[j].supersedes = id}

\* C37: in every state the supersede relation is a set of simple chains: a
\* decision with a superseded_by pointer is SUPERSEDED and the pointer names
\* the one decision that supersedes it, which was created after it; a
\* decision that supersedes another names one existing decision, not itself,
\* whose superseded_by points back; so no decision has two successors or two
\* predecessors and the pointers never lead back to a decision
C37_SupersedeChainsAreSimple ==
    \A i \in 1..Len(state.decisions) :
        LET d == state.decisions[i]
        IN  /\ Cardinality(DecisionsWithId(state, d.eve_decision_id)) = 1
            /\ Cardinality(SuccessorsOf(state, d.eve_decision_id)) <= 1
            /\ (d.superseded_by # NoId) = (d.status = "SUPERSEDED")
            /\ d.superseded_by # NoId =>
                  /\ d.superseded_by # d.eve_decision_id
                  /\ \E j \in (i + 1)..Len(state.decisions) :
                        SuccessorsOf(state, d.eve_decision_id) = {j}
                        /\ state.decisions[j].eve_decision_id = d.superseded_by
            /\ d.supersedes # NoId =>
                  /\ d.supersedes # d.eve_decision_id
                  /\ \E j \in 1..(i - 1) :
                        /\ state.decisions[j].eve_decision_id = d.supersedes
                        /\ state.decisions[j].superseded_by = d.eve_decision_id

\* a chain of three: the first decision was superseded by the second and the
\* second by the third
C37_Witness ==
    /\ Len(state.decisions) = 3
    /\ state.decisions[1].superseded_by = state.decisions[2].eve_decision_id
    /\ state.decisions[2].superseded_by = state.decisions[3].eve_decision_id
    /\ state.decisions[3].status = "EXECUTED"

\* C39: every call of submit, approve, seal, reject or supersede on the
\* manager that returns without raising leaves the X-Vault's evidence chain
\* at least one record longer than it was
C39_EveryOperationSealsEvidence ==
    [][ (probe'.op \in {"submit", "approve", "seal", "reject", "supersede"}
            /\ probe'.raised = "")
        => Len(xvault'.evidence_chain) > Len(xvault.evidence_chain) ]_vars

\* the approving decisions the log holds for a request
ApprovalsLogged(auth, request_id) ==
    {i \in 1..Len(auth.decision_log) :
        /\ auth.decision_log[i].request_id = request_id
        /\ auth.decision_log[i].decision = "approved"}

\* C31: a request has status approved only when the decision log holds at
\* least min_approvers approving decisions for it, each by an active user of
\* the module's organisation whose role is among the action's required roles
\* and who is not the requester; is_authorized says so exactly then; and a
\* request that is approved or rejected is no longer pending, is never
\* altered and gets no further decision
C31_ApprovedOnlyAfterEnoughApprovals ==
    /\ [](LET auth == ProbedAuthorization
          IN  /\ \A id \in DOMAIN auth.pending_requests :
                    auth.pending_requests[id].status \in {"pending", "expired"}
              /\ \A i \in 1..Len(auth.completed_requests) :
                    LET request == auth.completed_requests[i]
                        requirements == APPROVAL_REQUIREMENTS[request.action]
                        logged == ApprovalsLogged(auth, request.request_id)
                    IN  /\ request.status \in {"approved", "rejected"}
                        /\ request.request_id \notin DOMAIN auth.pending_requests
                        /\ is_authorized(auth, request.request_id)
                               = (request.status = "approved")
                        /\ request.status = "approved" =>
                              /\ Cardinality(logged) >= requirements.min_approvers
                              /\ \A j \in logged :
                                    LET approver == auth.decision_log[j].approver
                                    IN  /\ approver.active
                                        /\ approver.org_id = auth.org_id
                                        /\ approver.role \in requirements.required_roles
                                        /\ approver.user_id # request.requester.user_id
              /\ \A id \in (0..MaxUuids) \ CompletedIds(auth) :
                    ~is_authorized(auth, id))
    /\ [][LET was == ProbedAuthorization
              now == ProbedAuthorization'
          IN  /\ Len(now.completed_requests) >= Len(was.completed_requests)
              /\ \A i \in 1..Len(was.completed_requests) :
                    now.completed_requests[i] = was.completed_requests[i]
              /\ \A j \in (Len(was.decision_log) + 1)..Len(now.decision_log) :
                    now.decision_log[j].request_id \notin CompletedIds(was)
         ]_vars

\* a request that needs two approvers was approved by two users, and a
\* further approval of it was refused
C31_Witness ==
    /\ probe.op = "approve"
    /\ probe.raised = "ValueError"
    /\ DOMAIN probe.auth.pending_requests = {}
    /\ \E i \in 1..Len(probe.auth.completed_requests) :
          LET request == probe.auth.completed_requests[i]
          IN  /\ request.action = "update_rule_profile"
              /\ request.status = "approved"
              /\ request.approvers = <<"user_456", "user_789">>

\* the users whose approving entries a request's approval chain holds
ApprovingUsers(request) ==
    {request.approval_chain[i].approver_id :
        i \in {j \in 1..Len(request.approval_chain) :
                  request.approval_chain[j].decision = "approved"}}

\* C40: a request with status approved has approving entries of at least
\* min_approvers different users in its approval chain
C40_ApprovalsFromDistinctApprovers ==
    \A i \in 1..Len(ProbedAuthorization.completed_requests) :
        LET request == ProbedAuthorization.completed_requests[i]
        IN  request.status = "approved" =>
                Cardinality(ApprovingUsers(request))
                    >= APPROVAL_REQUIREMENTS[request.action].min_approvers

=============================================================================
